---- MODULE Spec2Model ----
(***************************************************************************)
(* Model of the sector core of megastructure_rpg:                          *)
(*   engine/world/sector_cache.py            SectorCache                   *)
(*   engine/world/hierarchical_pathfinding.py HierarchicalPathfinder       *)
(*   engine/world/generator.py               MegastructureGenerator        *)
(*   engine/world/tilemap.py                 TileMap, Room                 *)
(***************************************************************************)
EXTENDS Integers, Sequences, FiniteSets, TLC

(***************************************************************************)
(* Bounds of the model.                                                    *)
(***************************************************************************)
MaxCap == 2
MaxTTL == 1
MaxTime == 2
MaxCalls == 2
MaxPW == 3
MaxChunk == 2
MaxWalls == 2

VARIABLES
    cache,      \* SectorCache._cache: a dict, kept in insertion order
    max_size,   \* SectorCache._max_size
    ttl,        \* SectorCache._ttl
    now,        \* the reading of time.time()
    last,       \* the last cache call: its name, arguments and outcome
    lastHit,    \* the key of the most recent get that returned a grid
    lastPut,    \* for every key, the grid most recently stored under it
    th,         \* two concurrent callers of one cache: the position of each in its call
    raised,     \* some concurrent call has raised
    ptm,            \* the TileMap handed to the pathfinder
    chunk_size,     \* HierarchicalPathfinder.chunk_size
    abstract_cache, \* HierarchicalPathfinder._abstract_cache: whether it holds ptm, and the grid held
    q,              \* the last call on ptm or the pathfinder and what it returned
    rules,           \* MegastructureGenerator.rules
    gen,             \* the generator: under construction, idle, or the step its call is at
    call,            \* generate_sector: the arguments of the call
    current_theme,   \* MegastructureGenerator.current_theme
    room_weights,    \* generate_sector: the local room_weights
    tilemap,         \* generate_sector: the TileMap under construction, then returned
    rooms,           \* the rooms of tilemap, in the order of the list "rooms"
    attempts,        \* _generate_rooms: the local attempts
    connected_rooms, \* _connect_rooms: the ids of the local connected_rooms
    scan,            \* _connect_rooms: the index of the edge the running "for edge" loop is at
    replay           \* the random draws of the running call, and the call they are compared with

cvars == <<cache, max_size, ttl, now, last, lastHit, lastPut>>
tvars == <<th, raised>>
cframe == <<max_size, ttl, last, lastHit, lastPut>>

pvars == <<ptm, chunk_size, abstract_cache, q>>

gvars == <<rules, gen, call, current_theme, room_weights, tilemap, rooms, attempts,
           connected_rooms, scan>>

vars == <<cache, max_size, ttl, now, last, lastHit, lastPut, th, raised,
          ptm, chunk_size, abstract_cache, q,
          rules, gen, call, current_theme, room_weights, tilemap, rooms, attempts,
          connected_rooms, scan, replay>>

(***************************************************************************)
(* TileMap (tilemap.py).  A tilemap is a record of its width, its height   *)
(* and its tiles, a function of the in-bounds (x, y).                      *)
(***************************************************************************)
None == "None"

\* TileMap.__init__: every tile EMPTY
NewTileMap(w, h) ==
    [width |-> w, height |-> h,
     tiles |-> [p \in (0..(w - 1)) \X (0..(h - 1)) |-> "EMPTY"]]

\* only the upper bounds are tested
IsValidPositionNoLowerBound(tm, x, y) == x < tm.width /\ y < tm.height

\* TileMap.is_valid_position
IsValidPosition(tm, x, y) == 0 <= x /\ x < tm.width /\ 0 <= y /\ y < tm.height

\* TileMap.get_tile
GetTile(tm, x, y) == IF IsValidPosition(tm, x, y) THEN tm.tiles[<<x, y>>] ELSE None

\* TileMap.set_tile: what the call returns
SetTileReturns(tm, x, y) == IsValidPosition(tm, x, y)

\* TileMap.set_tile: the tilemap after the call (unchanged when out of bounds)
SetTile(tm, x, y, t) ==
    IF IsValidPosition(tm, x, y)
    THEN [tm EXCEPT !.tiles[<<x, y>>] = t]
    ELSE tm

(***************************************************************************)
(* SectorCache (sector_cache.py).  A key is (x, y, theme); a grid stands   *)
(* for the identity of a TileMap.                                          *)
(***************************************************************************)
Keys == {<<0, 0, "industrial">>, <<1, 0, "industrial">>, <<0, 0, "residential">>}
Grids == {"g1", "g2"}
NoKey == <<>>
NoGrid == "none"

\* key in self._cache
InCache(c, k) == \E i \in 1..Len(c) : c[i].key = k

\* self._cache[key]
Lookup(c, k) == c[CHOOSE i \in 1..Len(c) : c[i].key = k]

\* del self._cache[key]
DelKey(c, k) == SelectSeq(c, LAMBDA e : e.key # k)

\* self._cache[key] = (tilemap, timestamp): a key already present keeps its
\* place in the dict's order, a new key goes last
SetKey(c, k, g, t) ==
    IF InCache(c, k)
    THEN [i \in 1..Len(c) |-> IF c[i].key = k THEN [key |-> k, grid |-> g, ts |-> t] ELSE c[i]]
    ELSE Append(c, [key |-> k, grid |-> g, ts |-> t])

NewestKey(c) ==
    c[CHOOSE i \in 1..Len(c) :
        /\ \A j \in 1..Len(c) : c[j].ts <= c[i].ts
        /\ \A j \in 1..(i - 1) : c[j].ts < c[i].ts].key

\* min(self._cache.items(), key=lambda x: x[1][1])[0]: the first entry, in the
\* dict's order, among those with the least timestamp
OldestKey(c) ==
    c[CHOOSE i \in 1..Len(c) :
        /\ \A j \in 1..Len(c) : c[i].ts <= c[j].ts
        /\ \A j \in 1..(i - 1) : c[j].ts > c[i].ts].key

IsFreshStrict(ts, t) == t - ts < ttl

\* time.time() - timestamp <= self._ttl
IsFresh(ts, t) == t - ts <= ttl

AtCapacityStrict(c) == Len(c) > max_size

\* len(self._cache) >= self._max_size
AtCapacity(c) == Len(c) >= max_size

\* no call has returned yet
NoResult == [call |-> <<>>, draws |-> <<>>, gen |-> "idle", tilemap |-> NewTileMap(0, 0),
             rooms |-> <<>>]

\* the draws are not followed
ReplayOff == [mode |-> "off", draws |-> <<>>, prev |-> NoResult]

\* the rules the generator is built with: two room types, two themes
Rules ==
    [room_types |->
        [corridor |-> [min_size |-> <<1, 1>>, max_size |-> <<2, 1>>, min_door_width |-> 1],
         lab      |-> [min_size |-> <<3, 1>>, max_size |-> <<3, 1>>, min_door_width |-> 1]],
     connection_rules |-> <<>>,
     themes |->
        [industrial  |-> [room_weights |-> [corridor |-> 10, lab |-> 10]],
         residential |-> [room_weights |-> [lab |-> 10]]]]

NoCall == [op |-> "none", start |-> <<0, 0>>, goal |-> <<0, 0>>, path |-> <<>>, stale |-> FALSE]

\* self._abstract_cache = {}
NotCached == [has |-> FALSE, grid |-> <<>>]

Threads == {1, 2}
Idle == [pc |-> "idle", key |-> NoKey, grid |-> NoGrid, ts |-> 0, oldest |-> NoKey, calls |-> 0]

\* SectorCache.__init__
CacheInit ==
    /\ cache = <<>>
    /\ max_size \in 0..MaxCap
    /\ ttl \in 0..MaxTTL
    /\ now = 0
    /\ last = [op |-> "init", key |-> NoKey, ret |-> NoGrid, raised |-> FALSE, evicted |-> NoKey, had |-> FALSE]
    /\ lastHit = NoKey
    /\ lastPut = [k \in Keys |-> NoGrid]
    /\ th = [t \in Threads |-> Idle]
    /\ raised = FALSE
    /\ ptm = NewTileMap(1, 1)
    /\ chunk_size = MaxChunk
    /\ abstract_cache = NotCached
    /\ q = NoCall
    /\ rules = Rules
    /\ gen = "idle"
    /\ call = <<>>
    /\ current_theme = "industrial"
    /\ room_weights = <<>>
    /\ tilemap = NewTileMap(0, 0)
    /\ rooms = <<>>
    /\ attempts = 0
    /\ connected_rooms = {}
    /\ scan = 0
    /\ replay = ReplayOff

\* SectorCache.get
Get(k) ==
    /\ IF InCache(cache, k)
       THEN IF IsFresh(Lookup(cache, k).ts, now)
            THEN /\ cache' = cache
                 /\ last' = [op |-> "get", key |-> k, ret |-> Lookup(cache, k).grid,
                             raised |-> FALSE, evicted |-> NoKey,
                             had |-> InCache(cache, k)]
                 /\ lastHit' = k
            ELSE /\ cache' = DelKey(cache, k)
                 /\ last' = [op |-> "get", key |-> k, ret |-> NoGrid,
                             raised |-> FALSE, evicted |-> k,
                             had |-> InCache(cache, k)]
                 /\ lastHit' = lastHit
       ELSE /\ cache' = cache
            /\ last' = [op |-> "get", key |-> k, ret |-> NoGrid,
                        raised |-> FALSE, evicted |-> NoKey,
                             had |-> InCache(cache, k)]
            /\ lastHit' = lastHit
    /\ UNCHANGED <<max_size, ttl, now, lastPut>>
    /\ UNCHANGED <<tvars, pvars, gvars, replay>>

\* SectorCache.put; min() of an empty dict raises ValueError
Put(k, g) ==
    /\ IF AtCapacity(cache)
       THEN IF Len(cache) = 0
            THEN /\ cache' = cache
                 /\ last' = [op |-> "put", key |-> k, ret |-> NoGrid,
                             raised |-> TRUE, evicted |-> NoKey,
                             had |-> InCache(cache, k)]
                 /\ lastPut' = lastPut
            ELSE /\ cache' = SetKey(DelKey(cache, OldestKey(cache)), k, g, now)
                 /\ last' = [op |-> "put", key |-> k, ret |-> NoGrid,
                             raised |-> FALSE, evicted |-> OldestKey(cache),
                             had |-> InCache(cache, k)]
                 /\ lastPut' = [lastPut EXCEPT ![k] = g]
       ELSE /\ cache' = SetKey(cache, k, g, now)
            /\ last' = [op |-> "put", key |-> k, ret |-> NoGrid,
                        raised |-> FALSE, evicted |-> NoKey,
                             had |-> InCache(cache, k)]
            /\ lastPut' = [lastPut EXCEPT ![k] = g]
    /\ UNCHANGED <<max_size, ttl, now, lastHit>>
    /\ UNCHANGED <<tvars, pvars, gvars, replay>>

\* SectorCache.clear
Clear ==
    /\ cache' = <<>>
    /\ last' = [op |-> "clear", key |-> NoKey, ret |-> NoGrid,
                raised |-> FALSE, evicted |-> NoKey, had |-> FALSE]
    /\ UNCHANGED <<max_size, ttl, now, lastHit, lastPut>>
    /\ UNCHANGED <<tvars, pvars, gvars, replay>>

\* SectorCache.remove
Remove(k) ==
    /\ cache' = IF InCache(cache, k) THEN DelKey(cache, k) ELSE cache
    /\ last' = [op |-> "remove", key |-> k, ret |-> NoGrid,
                raised |-> FALSE, evicted |-> NoKey, had |-> FALSE]
    /\ UNCHANGED <<max_size, ttl, now, lastHit, lastPut>>
    /\ UNCHANGED <<tvars, pvars, gvars, replay>>

\* time passes between two calls
Tick ==
    /\ now < MaxTime
    /\ now' = now + 1
    /\ last' = [op |-> "tick", key |-> NoKey, ret |-> NoGrid,
                raised |-> FALSE, evicted |-> NoKey, had |-> FALSE]
    /\ UNCHANGED <<cache, max_size, ttl, lastHit, lastPut>>
    /\ UNCHANGED <<tvars, pvars, gvars, replay>>

CacheNext ==
    \/ \E k \in Keys : Get(k)
    \/ \E k \in Keys, g \in Grids : Put(k, g)
    \/ \E k \in Keys : Remove(k)
    \/ Clear
    \/ Tick

CacheSpec == CacheInit /\ [][CacheNext]_vars

(***************************************************************************)
(* Two callers of one SectorCache.  The cache has no lock: between the     *)
(* statements of get and put the other caller may run.  Each action is    *)
(* one statement of sector_cache.py; a KeyError or ValueError ends the     *)
(* call and is recorded in raised.                                         *)
(***************************************************************************)
ConcKeys == {<<0, 0, "industrial">>, <<1, 0, "industrial">>}

Goto(t, r) == th' = [th EXCEPT ![t] = r]
Return(t) == Goto(t, [Idle EXCEPT !.calls = th[t].calls])

\* key = (x, y, theme), on entry to get
CallGet(t, k) ==
    /\ th[t].pc = "idle"
    /\ th[t].calls < MaxCalls
    /\ Goto(t, [Idle EXCEPT !.pc = "g_test", !.key = k, !.calls = th[t].calls + 1])
    /\ UNCHANGED <<cache, raised>>
    /\ UNCHANGED <<now, cframe, pvars, gvars, replay>>

\* if key in self._cache:
GetTest(t) ==
    /\ th[t].pc = "g_test"
    /\ IF InCache(cache, th[t].key)
       THEN Goto(t, [th[t] EXCEPT !.pc = "g_read"])
       ELSE Return(t)
    /\ UNCHANGED <<cache, raised>>
    /\ UNCHANGED <<now, cframe, pvars, gvars, replay>>

\* tilemap, timestamp = self._cache[key]
GetRead(t) ==
    /\ th[t].pc = "g_read"
    /\ IF InCache(cache, th[t].key)
       THEN /\ Goto(t, [th[t] EXCEPT !.pc = "g_ttl",
                                     !.grid = Lookup(cache, th[t].key).grid,
                                     !.ts = Lookup(cache, th[t].key).ts])
            /\ UNCHANGED raised
       ELSE /\ Return(t)
            /\ raised' = TRUE
    /\ UNCHANGED cache
    /\ UNCHANGED <<now, cframe, pvars, gvars, replay>>

\* if time.time() - timestamp <= self._ttl: return tilemap
GetTtl(t) ==
    /\ th[t].pc = "g_ttl"
    /\ IF IsFresh(th[t].ts, now)
       THEN Return(t)
       ELSE Goto(t, [th[t] EXCEPT !.pc = "g_del"])
    /\ UNCHANGED <<cache, raised>>
    /\ UNCHANGED <<now, cframe, pvars, gvars, replay>>

\* del self._cache[key]
GetDel(t) ==
    /\ th[t].pc = "g_del"
    /\ IF InCache(cache, th[t].key)
       THEN /\ cache' = DelKey(cache, th[t].key)
            /\ UNCHANGED raised
       ELSE /\ raised' = TRUE
            /\ UNCHANGED cache
    /\ Return(t)
    /\ UNCHANGED <<now, cframe, pvars, gvars, replay>>

\* on entry to put
CallPut(t, k, g) ==
    /\ th[t].pc = "idle"
    /\ th[t].calls < MaxCalls
    /\ Goto(t, [Idle EXCEPT !.pc = "p_size", !.key = k, !.grid = g, !.calls = th[t].calls + 1])
    /\ UNCHANGED <<cache, raised>>
    /\ UNCHANGED <<now, cframe, pvars, gvars, replay>>

\* if len(self._cache) >= self._max_size:
PutSize(t) ==
    /\ th[t].pc = "p_size"
    /\ IF AtCapacity(cache)
       THEN Goto(t, [th[t] EXCEPT !.pc = "p_min"])
       ELSE Goto(t, [th[t] EXCEPT !.pc = "p_insert"])
    /\ UNCHANGED <<cache, raised>>
    /\ UNCHANGED <<now, cframe, pvars, gvars, replay>>

\* oldest_key = min(self._cache.items(), key=...)[0]
PutMin(t) ==
    /\ th[t].pc = "p_min"
    /\ IF Len(cache) = 0
       THEN /\ Return(t)
            /\ raised' = TRUE
       ELSE /\ Goto(t, [th[t] EXCEPT !.pc = "p_del", !.oldest = OldestKey(cache)])
            /\ UNCHANGED raised
    /\ UNCHANGED cache
    /\ UNCHANGED <<now, cframe, pvars, gvars, replay>>

\* del self._cache[oldest_key]
PutDel(t) ==
    /\ th[t].pc = "p_del"
    /\ IF InCache(cache, th[t].oldest)
       THEN /\ cache' = DelKey(cache, th[t].oldest)
            /\ Goto(t, [th[t] EXCEPT !.pc = "p_insert"])
            /\ UNCHANGED raised
       ELSE /\ Return(t)
            /\ raised' = TRUE
            /\ UNCHANGED cache
    /\ UNCHANGED <<now, cframe, pvars, gvars, replay>>

\* self._cache[key] = (tilemap, time.time())
PutInsert(t) ==
    /\ th[t].pc = "p_insert"
    /\ cache' = SetKey(cache, th[t].key, th[t].grid, now)
    /\ Return(t)
    /\ UNCHANGED raised
    /\ UNCHANGED <<now, cframe, pvars, gvars, replay>>

ConcTick ==
    /\ now < MaxTime
    /\ now' = now + 1
    /\ UNCHANGED <<cache, th, raised, cframe, pvars, gvars, replay>>

ConcNext ==
    \/ \E t \in Threads, k \in ConcKeys : CallGet(t, k)
    \/ \E t \in Threads : GetTest(t)
    \/ \E t \in Threads : GetRead(t)
    \/ \E t \in Threads : GetTtl(t)
    \/ \E t \in Threads : GetDel(t)
    \/ \E t \in Threads, k \in ConcKeys : CallPut(t, k, "g1")
    \/ \E t \in Threads : PutSize(t)
    \/ \E t \in Threads : PutMin(t)
    \/ \E t \in Threads : PutDel(t)
    \/ \E t \in Threads : PutInsert(t)
    \/ ConcTick

\* a cache constructed with any capacity and TTL, shared by two idle callers
ConcInit ==
    /\ cache = <<>>
    /\ max_size \in 0..MaxCap
    /\ ttl \in 0..MaxTTL
    /\ now = 0
    /\ last = [op |-> "init", key |-> NoKey, ret |-> NoGrid, raised |-> FALSE,
               evicted |-> NoKey, had |-> FALSE]
    /\ lastHit = NoKey
    /\ lastPut = [k \in Keys |-> NoGrid]
    /\ th = [t \in Threads |-> Idle]
    /\ raised = FALSE
    /\ ptm = NewTileMap(1, 1)
    /\ chunk_size = MaxChunk
    /\ abstract_cache = NotCached
    /\ q = NoCall
    /\ rules = Rules
    /\ gen = "idle"
    /\ call = <<>>
    /\ current_theme = "industrial"
    /\ room_weights = <<>>
    /\ tilemap = NewTileMap(0, 0)
    /\ rooms = <<>>
    /\ attempts = 0
    /\ connected_rooms = {}
    /\ scan = 0
    /\ replay = ReplayOff

CacheConcSpec == ConcInit /\ [][ConcNext]_vars

(***************************************************************************)
(* heapq on a list of PathNode.  A node is a record of its f_score, its    *)
(* position, its g_score and, in place of the parent link, the positions   *)
(* from the start to the node.  Costs are tenths: 1.0 is 10 and 1.4 is 14. *)
(***************************************************************************)
\* PathNode is ordered by f_score alone
NodeLT(a, b) == a.f < b.f

RECURSIVE SiftDown(_, _, _, _)
\* heapq._siftdown, positions counted from 0
SiftDown(heap, startpos, pos, newitem) ==
    IF pos > startpos
    THEN LET parentpos == (pos - 1) \div 2
             parent == heap[parentpos + 1]
         IN  IF NodeLT(newitem, parent)
             THEN SiftDown([heap EXCEPT ![pos + 1] = parent], startpos, parentpos, newitem)
             ELSE [heap EXCEPT ![pos + 1] = newitem]
    ELSE [heap EXCEPT ![pos + 1] = newitem]

RECURSIVE SiftUp(_, _, _, _)
\* heapq._siftup: the smaller child moves up until a leaf is hit, then _siftdown
SiftUp(heap, startpos, pos, newitem) ==
    LET endpos == Len(heap)
        childpos == 2 * pos + 1
        rightpos == childpos + 1
    IN  IF childpos < endpos
        THEN LET c == IF rightpos < endpos /\ ~NodeLT(heap[childpos + 1], heap[rightpos + 1])
                      THEN rightpos ELSE childpos
             IN  SiftUp([heap EXCEPT ![pos + 1] = heap[c + 1]], startpos, c, newitem)
        ELSE SiftDown(heap, startpos, pos, newitem)

\* heapq.heappush
HeapPush(heap, item) == SiftDown(Append(heap, item), 0, Len(heap), item)

\* heapq.heappop of a non-empty heap: the item and the heap left
HeapPop(heap) ==
    LET lastelt == heap[Len(heap)]
        rest == SubSeq(heap, 1, Len(heap) - 1)
    IN  IF rest = <<>>
        THEN [item |-> lastelt, heap |-> <<>>]
        ELSE [item |-> rest[1], heap |-> SiftUp([rest EXCEPT ![1] = lastelt], 0, 0, lastelt)]

(***************************************************************************)
(* HierarchicalPathfinder (hierarchical_pathfinding.py).                   *)
(***************************************************************************)
Abs(n) == IF n < 0 THEN -n ELSE n

\* HierarchicalPathfinder._heuristic
Heuristic(a, b) == Abs(b[1] - a[1]) + Abs(b[2] - a[2])

Min2(a, b) == IF a < b THEN a ELSE b
Max2(a, b) == IF a > b THEN a ELSE b

\* chunk_h and chunk_w of _create_abstract_grid
ChunkCount(n, cs) == (n + cs - 1) \div cs

\* a chunk with a quarter of walls counts as unwalkable too
TooManyWallsFromQuarter(obstacles, total) == 4 * obstacles >= total

\* obstacles / total > 0.25
TooManyWalls(obstacles, total) == 4 * obstacles > total

\* HierarchicalPathfinder._create_abstract_grid: for every chunk, whether it
\* is walkable
CreateAbstractGrid(tm, cs) ==
    [c \in (0..(ChunkCount(tm.width, cs) - 1)) \X (0..(ChunkCount(tm.height, cs) - 1)) |->
        LET x1 == c[1] * cs
            y1 == c[2] * cs
            x2 == Min2(x1 + cs, tm.width)
            y2 == Min2(y1 + cs, tm.height)
            cells == (x1..(x2 - 1)) \X (y1..(y2 - 1))
            obstacles == Cardinality({p \in cells : GetTile(tm, p[1], p[2]) = "WALL"})
            total == Cardinality(cells)
        IN  ~TooManyWalls(obstacles, total)]

Dirs4 == <<<<0, 1>>, <<1, 0>>, <<0, -1>>, <<-1, 0>>>>
Dirs8 == <<<<0, 1>>, <<1, 0>>, <<0, -1>>, <<-1, 0>>,
           <<1, 1>>, <<-1, 1>>, <<1, -1>>, <<-1, -1>>>>

\* the test of _get_neighbors: a chunk of the abstract grid that is walkable
AbstractOpen(grid, w, h, c) ==
    /\ 0 <= c[1] /\ c[1] < w /\ 0 <= c[2] /\ c[2] < h
    /\ grid[c]

RECURSIVE ExpandAbstract(_, _, _, _, _, _, _, _, _)
\* the loop over _get_neighbors in _abstract_path, from direction i on
ExpandAbstract(grid, w, h, goal, cur, open, closed, g, i) ==
    IF i > Len(Dirs4)
    THEN [open |-> open, g |-> g]
    ELSE LET np == <<cur.pos[1] + Dirs4[i][1], cur.pos[2] + Dirs4[i][2]>>
             tg == g[cur.pos] + 1
         IN  IF ~AbstractOpen(grid, w, h, np) \/ np \in closed
             THEN ExpandAbstract(grid, w, h, goal, cur, open, closed, g, i + 1)
             ELSE IF np \notin DOMAIN g \/ tg < g[np]
                  THEN ExpandAbstract(grid, w, h, goal, cur,
                           HeapPush(open, [f |-> tg + Heuristic(np, goal), pos |-> np,
                                           g |-> tg, path |-> Append(cur.path, np)]),
                           closed, (np :> tg) @@ g, i + 1)
                  ELSE ExpandAbstract(grid, w, h, goal, cur, open, closed, g, i + 1)

RECURSIVE AbstractLoop(_, _, _, _, _, _, _)
\* the while loop of _abstract_path
AbstractLoop(grid, w, h, goal, open, closed, g) ==
    IF open = <<>>
    THEN <<>>
    ELSE LET popped == HeapPop(open)
             cur == popped.item
             closed2 == closed \cup {cur.pos}
         IN  IF cur.pos = goal
             THEN cur.path
             ELSE LET st == ExpandAbstract(grid, w, h, goal, cur, popped.heap, closed2, g, 1)
                  IN  AbstractLoop(grid, w, h, goal, st.open, closed2, st.g)

\* HierarchicalPathfinder._abstract_path
AbstractPath(start, goal, grid, w, h) ==
    AbstractLoop(grid, w, h, goal,
                 <<[f |-> 0, pos |-> start, g |-> 0, path |-> <<start>>]>>,
                 {}, (start :> 0))

\* the cost of one step of _detailed_path, in tenths
StepCost(d) == IF d[1] # 0 /\ d[2] # 0 THEN 14 ELSE 10

\* the neighbour test of _detailed_path: in bounds and not a WALL
Walkable(tm, x, y) ==
    ~(x < 0 \/ x >= tm.width \/ y < 0 \/ y >= tm.height \/ GetTile(tm, x, y) = "WALL")

RECURSIVE ExpandDetailed(_, _, _, _, _, _, _)
\* the loop over the eight directions in _detailed_path, from direction i on
ExpandDetailed(tm, goal, cur, open, closed, g, i) ==
    IF i > Len(Dirs8)
    THEN [open |-> open, g |-> g]
    ELSE LET np == <<cur.pos[1] + Dirs8[i][1], cur.pos[2] + Dirs8[i][2]>>
             tg == g[cur.pos] + StepCost(Dirs8[i])
         IN  IF ~Walkable(tm, np[1], np[2]) \/ np \in closed
             THEN ExpandDetailed(tm, goal, cur, open, closed, g, i + 1)
             ELSE IF np \notin DOMAIN g \/ tg < g[np]
                  THEN ExpandDetailed(tm, goal, cur,
                           HeapPush(open, [f |-> tg + 10 * Heuristic(np, goal), pos |-> np,
                                           g |-> tg, path |-> Append(cur.path, np)]),
                           closed, (np :> tg) @@ g, i + 1)
                  ELSE ExpandDetailed(tm, goal, cur, open, closed, g, i + 1)

RECURSIVE DetailedLoop(_, _, _, _, _)
\* the while loop of _detailed_path
DetailedLoop(tm, goal, open, closed, g) ==
    IF open = <<>>
    THEN <<>>
    ELSE LET popped == HeapPop(open)
             cur == popped.item
             closed2 == closed \cup {cur.pos}
         IN  IF cur.pos = goal
             THEN cur.path
             ELSE LET st == ExpandDetailed(tm, goal, cur, popped.heap, closed2, g, 1)
                  IN  DetailedLoop(tm, goal, st.open, closed2, st.g)

\* HierarchicalPathfinder._detailed_path
DetailedPath(tm, start, goal) ==
    DetailedLoop(tm, goal, <<[f |-> 0, pos |-> start, g |-> 0, path |-> <<start>>]>>,
                 {}, (start :> 0))

RECURSIVE RangeSeq(_, _)
\* range(a, b) as a sequence
RangeSeq(a, b) == IF a >= b THEN <<>> ELSE <<a>> \o RangeSeq(a + 1, b)

\* HierarchicalPathfinder._find_crossing_points
FindCrossingPoints(tm, cs, chunk1, chunk2) ==
    IF chunk1[1] = chunk2[1]
    THEN LET edge_x == (chunk1[1] + 1) * cs
             ys == RangeSeq(Max2(chunk1[2] * cs, 0), Min2((chunk1[2] + 1) * cs, tm.height))
             ok == SelectSeq(ys, LAMBDA y : GetTile(tm, edge_x - 1, y) # "WALL"
                                            /\ GetTile(tm, edge_x, y) # "WALL")
         IN  [i \in 1..Len(ok) |-> <<edge_x, ok[i]>>]
    ELSE LET edge_y == (chunk1[2] + 1) * cs
             xs == RangeSeq(Max2(chunk1[1] * cs, 0), Min2((chunk1[1] + 1) * cs, tm.width))
             ok == SelectSeq(xs, LAMBDA x : GetTile(tm, x, edge_y - 1) # "WALL"
                                            /\ GetTile(tm, x, edge_y) # "WALL")
         IN  [i \in 1..Len(ok) |-> <<ok[i], edge_y>>]

\* min(crossing_points, key=lambda p: self._heuristic(p, goal)): the first
\* point of the list with the least heuristic
BestPoint(points, goal) ==
    points[CHOOSE i \in 1..Len(points) :
        /\ \A j \in 1..Len(points) : Heuristic(points[i], goal) <= Heuristic(points[j], goal)
        /\ \A j \in 1..(i - 1) : Heuristic(points[j], goal) > Heuristic(points[i], goal)]

\* final_path.extend(chunk_path): the first point of the segment is kept
WholePath(path) == path

\* final_path.extend(chunk_path[1:])
Tail1(path) == SubSeq(path, 2, Len(path))

RECURSIVE Refine(_, _, _, _, _, _, _)
\* the loop "for i in range(len(abstract_path) - 1)" of find_path and the
\* final _detailed_path to the goal
Refine(tm, cs, goal, abstract_path, i, final_path, current_pos) ==
    IF i > Len(abstract_path) - 1
    THEN final_path \o Tail1(DetailedPath(tm, current_pos, goal))
    ELSE LET crossing_points == FindCrossingPoints(tm, cs, abstract_path[i], abstract_path[i + 1])
         IN  IF crossing_points = <<>>
             THEN Refine(tm, cs, goal, abstract_path, i + 1, final_path, current_pos)
             ELSE LET best_point == BestPoint(crossing_points, goal)
                      chunk_path == DetailedPath(tm, current_pos, best_point)
                  IN  IF chunk_path # <<>>
                      THEN Refine(tm, cs, goal, abstract_path, i + 1,
                                  final_path \o Tail1(chunk_path), best_point)
                      ELSE Refine(tm, cs, goal, abstract_path, i + 1, final_path, current_pos)

\* HierarchicalPathfinder.find_path, given the abstract grid it uses
FindPathWith(tm, cs, grid, start, goal) ==
    LET abstract_start == <<start[1] \div cs, start[2] \div cs>>
        abstract_goal == <<goal[1] \div cs, goal[2] \div cs>>
        abstract_path == AbstractPath(abstract_start, abstract_goal, grid,
                                      ChunkCount(tm.width, cs), ChunkCount(tm.height, cs))
    IN  IF abstract_path = <<>>
        THEN <<>>
        ELSE Refine(tm, cs, goal, abstract_path, 1, <<start>>, start)

\* the heights of the maps handed to the pathfinder
PathHeights == {1, 2}

\* the coordinates a caller passes for a w by h map: every in-bounds point and
\* one point beyond each of the four edges
Coords(w, h) ==
    ((0..(w - 1)) \X (0..(h - 1))) \cup {<<-1, 0>>, <<w, 0>>, <<0, -1>>, <<0, h>>}

WallCount(tm) == Cardinality({p \in DOMAIN tm.tiles : tm.tiles[p] = "WALL"})

\* a fresh TileMap of any size within the bounds and a fresh pathfinder;
\* the cache is not used
PathInit ==
    /\ \E w \in 1..MaxPW, h \in PathHeights : ptm = NewTileMap(w, h)
    /\ chunk_size \in 2..MaxChunk
    /\ abstract_cache = NotCached
    /\ q = NoCall
    /\ rules = Rules
    /\ gen = "idle"
    /\ call = <<>>
    /\ current_theme = "industrial"
    /\ room_weights = <<>>
    /\ tilemap = NewTileMap(0, 0)
    /\ rooms = <<>>
    /\ attempts = 0
    /\ connected_rooms = {}
    /\ scan = 0
    /\ replay = ReplayOff
    /\ cache = <<>>
    /\ max_size = 0
    /\ ttl = 0
    /\ now = 0
    /\ last = [op |-> "init", key |-> NoKey, ret |-> NoGrid, raised |-> FALSE,
               evicted |-> NoKey, had |-> FALSE]
    /\ lastHit = NoKey
    /\ lastPut = [k \in Keys |-> NoGrid]
    /\ th = [t \in Threads |-> Idle]
    /\ raised = FALSE

\* HierarchicalPathfinder._get_abstract_grid: the grid cached for the tilemap,
\* created on the first call and never refreshed
GetAbstractGrid(tm, cs, cached) ==
    IF cached.has THEN cached.grid ELSE CreateAbstractGrid(tm, cs)

\* a call of HierarchicalPathfinder.find_path(ptm, start, goal)
FindPath(start, goal) ==
    LET grid == GetAbstractGrid(ptm, chunk_size, abstract_cache)
    IN  /\ q.op # "find_path"
        /\ abstract_cache' = [has |-> TRUE, grid |-> grid]
        /\ q' = [op |-> "find_path", start |-> start, goal |-> goal,
                 path |-> FindPathWith(ptm, chunk_size, grid, start, goal),
                 stale |-> grid # CreateAbstractGrid(ptm, chunk_size)]
        /\ UNCHANGED <<ptm, chunk_size, cvars, tvars, gvars, replay>>

\* a call of TileMap.set_tile(x, y, t) on ptm between two path queries
WriteTile(x, y, t) ==
    /\ WallCount(SetTile(ptm, x, y, t)) <= MaxWalls
    /\ ptm' = SetTile(ptm, x, y, t)
    /\ q' = [op |-> "set_tile", start |-> <<x, y>>, goal |-> <<x, y>>,
             path |-> <<>>, stale |-> FALSE]
    /\ UNCHANGED <<chunk_size, abstract_cache, cvars, tvars, gvars, replay>>

\* the caller has taken the result of find_path
TakeResult ==
    /\ q.op = "find_path"
    /\ q' = NoCall
    /\ UNCHANGED <<ptm, chunk_size, abstract_cache, cvars, tvars, gvars, replay>>

PathNext ==
    \/ \E start \in Coords(ptm.width, ptm.height), goal \in Coords(ptm.width, ptm.height) :
          FindPath(start, goal)
    \/ \E c \in Coords(ptm.width, ptm.height), t \in {"WALL", "EMPTY"} :
          WriteTile(c[1], c[2], t)
    \/ TakeResult

PathSpec == PathInit /\ [][PathNext]_vars

(***************************************************************************)
(* The pathfinder on a map of two by two tiles, with chunks from one tile  *)
(* on: the map then has two rows of chunks, the crossing points of two     *)
(* chunks can be tiles of the map, and find_path joins the segment that    *)
(* ends at a crossing point to the segment that starts from it.            *)
(***************************************************************************)
RefineInit ==
    /\ ptm = NewTileMap(2, 2)
    /\ chunk_size \in 1..MaxChunk
    /\ abstract_cache = NotCached
    /\ q = NoCall
    /\ rules = Rules
    /\ gen = "idle"
    /\ call = <<>>
    /\ current_theme = "industrial"
    /\ room_weights = <<>>
    /\ tilemap = NewTileMap(0, 0)
    /\ rooms = <<>>
    /\ attempts = 0
    /\ connected_rooms = {}
    /\ scan = 0
    /\ replay = ReplayOff
    /\ cache = <<>>
    /\ max_size = 0
    /\ ttl = 0
    /\ now = 0
    /\ last = [op |-> "init", key |-> NoKey, ret |-> NoGrid, raised |-> FALSE,
               evicted |-> NoKey, had |-> FALSE]
    /\ lastHit = NoKey
    /\ lastPut = [k \in Keys |-> NoGrid]
    /\ th = [t \in Threads |-> Idle]
    /\ raised = FALSE

RefineSpec == RefineInit /\ [][PathNext]_vars

(***************************************************************************)
(* MegastructureGenerator (generator.py): the helpers of generate_sector.  *)
(* A room is a record of the fields of Room; rooms are kept in the order   *)
(* of the list "rooms".                                                    *)
(***************************************************************************)
\* Room(room_id, room_type, x, y, width, height)
NewRoom(id, type, x, y, w, h) ==
    [id |-> id, type |-> type, x |-> x, y |-> y, width |-> w, height |-> h,
     connections |-> {}]

\* padding = 2 in _generate_rooms
Padding == 2

PositionRangeAnySize(size, extent) == Padding..(extent - Padding)

\* the range of "random.randint(padding, tilemap.width - width - padding)"
PositionRange(size, extent) == Padding..(extent - size - Padding)

\* the overlap test of _generate_rooms for a candidate and one placed room
OverlapsPadded(x, y, w, h, room) ==
    /\ x - Padding < room.x + room.width + Padding
    /\ x + w + Padding > room.x - Padding
    /\ y - Padding < room.y + room.height + Padding
    /\ y + h + Padding > room.y - Padding

OverlapsLastOnly(x, y, w, h, rs) ==
    rs # <<>> /\ OverlapsPadded(x, y, w, h, rs[Len(rs)])

\* "for room in rooms: if ...: overlaps = True"
OverlapsAny(x, y, w, h, rs) ==
    \E i \in 1..Len(rs) : OverlapsPadded(x, y, w, h, rs[i])

\* MegastructureGenerator._is_inside_room
IsInsideRoom(x, y, room) ==
    /\ room.x <= x /\ x < room.x + room.width
    /\ room.y <= y /\ y < room.y + room.height

\* any(self._is_inside_room(x, y, r) for r in rooms)
InsideAnyRoom(x, y, rs) == \E i \in 1..Len(rs) : IsInsideRoom(x, y, rs[i])

\* the tiles after "Place room in tilemap" and "Place walls around room"
StampRoom(tm, x, y, w, h) ==
    [tm EXCEPT !.tiles =
        [p \in DOMAIN tm.tiles |->
            IF x <= p[1] /\ p[1] < x + w /\ y <= p[2] /\ p[2] < y + h
            THEN "FLOOR"
            ELSE IF /\ x - 1 <= p[1] /\ p[1] <= x + w
                    /\ y - 1 <= p[2] /\ p[2] <= y + h
                 THEN "WALL"
                 ELSE tm.tiles[p]]]

\* door positions taken one row or column too far in: on the edge tiles of
\* the room itself
DoorPositionsOnEdge(tm, room) ==
    {p \in    {<<x, room.y>> : x \in (room.x + 1)..(room.x + room.width - 2)}
         \cup {<<x, room.y + room.height - 1>> : x \in (room.x + 1)..(room.x + room.width - 2)}
         \cup {<<room.x, y>> : y \in (room.y + 1)..(room.y + room.height - 2)}
         \cup {<<room.x + room.width - 1, y>> : y \in (room.y + 1)..(room.y + room.height - 2)} :
        IsValidPosition(tm, p[1], p[2])}

\* the list "positions" of _find_valid_door_position
DoorPositions(tm, room) ==
    {p \in    {<<x, room.y - 1>> : x \in (room.x + 1)..(room.x + room.width - 2)}
         \cup {<<x, room.y + room.height>> : x \in (room.x + 1)..(room.x + room.width - 2)}
         \cup {<<room.x - 1, y>> : y \in (room.y + 1)..(room.y + room.height - 2)}
         \cup {<<room.x + room.width, y>> : y \in (room.y + 1)..(room.y + room.height - 2)} :
        IsValidPosition(tm, p[1], p[2])}

\* _find_valid_door_position once pos is chosen: the door is set and every
\* EMPTY or WALL tile among its eight neighbours becomes FLOOR
PlaceDoorAt(tm, pos) ==
    [tm EXCEPT !.tiles =
        [p \in DOMAIN tm.tiles |->
            IF p = pos
            THEN "DOOR"
            ELSE IF /\ Abs(p[1] - pos[1]) <= 1 /\ Abs(p[2] - pos[2]) <= 1
                    /\ tm.tiles[p] \in {"EMPTY", "WALL"}
                 THEN "FLOOR"
                 ELSE tm.tiles[p]]]

(***************************************************************************)
(* MegastructureGenerator._find_path: A* over the four cardinal moves, a   *)
(* step onto a WALL costing 10 more, room interiors closed.                *)
(***************************************************************************)
Movements == <<<<0, 1>>, <<0, -1>>, <<1, 0>>, <<-1, 0>>>>

\* min(open_list, key=lambda x: (x[0], x[1])): the first least (f, g)
MinOpen(open) ==
    open[CHOOSE i \in 1..Len(open) :
        /\ \A j \in 1..Len(open) :
              \/ open[i].f < open[j].f
              \/ (open[i].f = open[j].f /\ open[i].g <= open[j].g)
        /\ \A j \in 1..(i - 1) :
              \/ open[j].f > open[i].f
              \/ (open[j].f = open[i].f /\ open[j].g > open[i].g)]

RECURSIVE Reconstruct(_, _, _)
\* "while current in previous: path.append(current)", then start, reversed
Reconstruct(previous, current, start) ==
    IF current \in DOMAIN previous
    THEN Append(Reconstruct(previous, previous[current], start), current)
    ELSE <<start>>

RECURSIVE GenExpand(_, _, _, _, _, _, _, _)
\* the loop "for dx, dy in movements", from movement i on; st holds
\* open_list, g_score and previous
GenExpand(tm, rs, start, end, cur, closed, st, i) ==
    IF i > Len(Movements)
    THEN st
    ELSE LET nb == <<cur.n[1] + Movements[i][1], cur.n[2] + Movements[i][2]>>
             tg == cur.g + 1 + (IF GetTile(tm, nb[1], nb[2]) = "WALL" THEN 10 ELSE 0)
         IN  IF \/ nb \in closed
                \/ ~IsValidPosition(tm, nb[1], nb[2])
                \/ (nb # start /\ nb # end /\ InsideAnyRoom(nb[1], nb[2], rs))
             THEN GenExpand(tm, rs, start, end, cur, closed, st, i + 1)
             ELSE IF nb \notin DOMAIN st.g \/ tg < st.g[nb]
                  THEN GenExpand(tm, rs, start, end, cur, closed,
                          [open |-> IF \E k \in 1..Len(st.open) : st.open[k].n = nb
                                    THEN st.open
                                    ELSE Append(st.open, [f |-> tg + Heuristic(nb, end),
                                                          g |-> tg, n |-> nb]),
                           g |-> (nb :> tg) @@ st.g,
                           previous |-> (nb :> cur.n) @@ st.previous],
                          i + 1)
                  ELSE GenExpand(tm, rs, start, end, cur, closed, st, i + 1)

RECURSIVE GenLoop(_, _, _, _, _, _)
\* the loop "while open_list" of _find_path
GenLoop(tm, rs, start, end, closed, st) ==
    IF st.open = <<>>
    THEN <<>>
    ELSE LET cur == MinOpen(st.open)
         IN  IF cur.n = end
             THEN Reconstruct(st.previous, cur.n, start)
             ELSE GenLoop(tm, rs, start, end, closed \cup {cur.n},
                          GenExpand(tm, rs, start, end, cur, closed \cup {cur.n},
                                    [st EXCEPT !.open = SelectSeq(st.open, LAMBDA e : e.n # cur.n)],
                                    1))

\* MegastructureGenerator._find_path; <<>> stands for None
GenFindPath(tm, rs, start, end) ==
    IF ~(IsValidPosition(tm, start[1], start[2]) /\ IsValidPosition(tm, end[1], end[2]))
    THEN <<>>
    ELSE GenLoop(tm, rs, start, end, {},
                 [open |-> <<[f |-> Heuristic(start, end), g |-> 0, n |-> start]>>,
                  g |-> (start :> 0),
                  previous |-> <<>>])

(***************************************************************************)
(* generate_sector, one call, step by step.  The rules are those of a      *)
(* small configuration: two room types one tile high, one theme.  Weights  *)
(* and the corridor ratio are in tenths.  MaxAttempts stands for the       *)
(* max_attempts = 100 of _generate_rooms.                                  *)
(***************************************************************************)
MapW == 15
MaxAttempts == 3

\* the arguments the call is made with; <<>> is an argument left out
GenWidths == {-1, 0, 5, MapW}
GenHeights == {0, 5}
GenThemes == {None, "industrial", "unknown"}
MinRoomsArgs == {<<>>, <<1>>}
MaxRoomsArgs == {<<>>, <<0>>, <<1>>, <<2>>}
CorridorRatios == {<<>>, <<10>>}

\* "min_rooms or 5", "max_rooms or 15"
OrDefault(v, d) == IF v = <<>> \/ v[1] = 0 THEN d ELSE v[1]

MinRooms == OrDefault(call.min_rooms, 5)
MaxRooms == OrDefault(call.max_rooms, 15)

\* self.rules.get('themes', {})
Themes == IF "themes" \in DOMAIN rules THEN rules.themes ELSE <<>>

\* the weights of the theme the generator last used, when the theme is not known
ThemeWeightsOfCurrent(theme) ==
    IF theme # None /\ theme \in DOMAIN Themes
    THEN Themes[theme].room_weights
    ELSE Themes[current_theme].room_weights

\* theme_config['room_weights'] of the theme, or of the fallback
ThemeWeights(theme) ==
    IF theme # None /\ theme \in DOMAIN Themes
    THEN Themes[theme].room_weights
    ELSE [corridor |-> 10]

\* the weights are updated in the dictionary of the theme itself
RulesAfterUpdateInPlace(r, theme, weights) ==
    IF theme # None /\ "themes" \in DOMAIN r /\ theme \in DOMAIN r.themes
    THEN [r EXCEPT !.themes[theme].room_weights = weights]
    ELSE r

\* the rules after the loop that updates room_weights: the loop writes to
\* the copy made by .copy(), so the dictionaries of the rules stay
RulesAfterUpdate(r, theme, weights) == r

\* room_weights after "Update room weights based on corridor ratio"
RatioWeights(weights, ratio) ==
    [t \in DOMAIN weights |->
        IF t = "corridor"
        THEN ratio
        ELSE (10 - ratio) \div (Cardinality(DOMAIN weights) - 1)]

RoomIds(rs) == {rs[i].id : i \in 1..Len(rs)}

RoomById(rs, id) == rs[CHOOSE i \in 1..Len(rs) : rs[i].id = id]

\* the attempt is not counted
NextAttemptNotCounted(a) == a

\* attempts += 1
NextAttempt(a) == a + 1

\* the keys of the room_weights dictionaries, in their order
TypeOrder == <<"corridor", "lab">>

\* the place of type t among the types random.choices can return
TypeIndex(weights, t) ==
    Cardinality({i \in 1..Len(TypeOrder) :
                    /\ TypeOrder[i] \in DOMAIN weights
                    /\ weights[TypeOrder[i]] > 0
                    /\ i <= CHOOSE j \in 1..Len(TypeOrder) : TypeOrder[j] = t})

\* the random source gives the draws e: when the draws of a call are
\* followed they are written down, and a call that is run again on the
\* draws of an earlier one is given the same draws in the same order
Draw(e) ==
    IF replay.mode = "off"
    THEN UNCHANGED replay
    ELSE /\ replay.mode = "replay" =>
              /\ Len(replay.draws) < Len(replay.prev.draws)
              /\ replay.prev.draws[Len(replay.draws) + 1][1] = e[1]
              /\ replay.prev.draws[Len(replay.draws) + 1] = e
         /\ replay' = [replay EXCEPT !.draws = Append(@, e)]

InvalidDimensionsWidthOnly(w, h) == w <= 0

\* "if width <= 0 or height <= 0: raise ValueError"
InvalidDimensions(w, h) == w <= 0 \/ h <= 0

\* generate_sector up to the call of _generate_rooms
GenerateSector(w, h, theme, minr, maxr, ratio) ==
    /\ gen = "idle"
    /\ call' = [width |-> w, height |-> h, theme |-> theme, min_rooms |-> minr,
                max_rooms |-> maxr, corridor_ratio |-> ratio]
    /\ IF InvalidDimensions(w, h)
       THEN /\ gen' = "raised"
            /\ UNCHANGED <<current_theme, room_weights, tilemap, rules>>
       ELSE /\ current_theme' = IF theme # None /\ theme \in DOMAIN Themes
                                THEN theme
                                ELSE current_theme
            /\ tilemap' = NewTileMap(w, h)
            /\ IF ratio # <<>> /\ Cardinality(DOMAIN ThemeWeights(theme)) = 1
               THEN \* ZeroDivisionError: the fallback TileMap is returned
                    /\ gen' = "done"
                    /\ UNCHANGED <<room_weights, rules>>
               ELSE /\ gen' = "place"
                    /\ room_weights' = IF ratio = <<>>
                                       THEN ThemeWeights(theme)
                                       ELSE RatioWeights(ThemeWeights(theme), ratio[1])
                    /\ rules' = IF ratio = <<>>
                                THEN rules
                                ELSE RulesAfterUpdate(rules, theme,
                                        RatioWeights(ThemeWeights(theme), ratio[1]))
    /\ UNCHANGED <<rooms, attempts, connected_rooms, scan>>
    /\ UNCHANGED <<cvars, tvars, pvars, replay>>

\* one pass of the loop of _generate_rooms whose draws are all made
PlaceRoom ==
    /\ gen = "place"
    /\ Len(rooms) < MaxRooms
    /\ attempts < MaxAttempts
    /\ \E t \in {u \in DOMAIN room_weights : room_weights[u] > 0} :
         /\ t \in DOMAIN rules.room_types
         /\ \E w \in rules.room_types[t].min_size[1]..rules.room_types[t].max_size[1],
               h \in rules.room_types[t].min_size[2]..rules.room_types[t].max_size[2] :
              \E x \in PositionRange(w, tilemap.width),
                 y \in PositionRange(h, tilemap.height) :
                 LET drawn == <<"room", TypeIndex(room_weights, t),
                                w - rules.room_types[t].min_size[1],
                                h - rules.room_types[t].min_size[2],
                                x - Padding, y - Padding>>
                 IN
                 IF OverlapsAny(x, y, w, h, rooms)
                 THEN /\ attempts' = NextAttempt(attempts)
                      /\ UNCHANGED <<gen, rooms, tilemap>>
                      /\ Draw(Append(drawn, FALSE))
                 ELSE /\ rooms' = Append(rooms, NewRoom(Len(rooms), t, x, y, w, h))
                      /\ tilemap' = StampRoom(tilemap, x, y, w, h)
                      /\ \E stop \in BOOLEAN :
                           /\ IF Len(rooms) + 1 >= MinRooms /\ stop
                              THEN gen' = "connect" /\ UNCHANGED attempts
                              ELSE attempts' = NextAttempt(attempts) /\ UNCHANGED gen
                           /\ Draw(Append(drawn, Len(rooms) + 1 >= MinRooms /\ stop))
    /\ UNCHANGED <<call, current_theme, room_weights, connected_rooms, scan>>
    /\ UNCHANGED <<cvars, tvars, pvars, rules>>

\* a pass of the loop in which a draw raises (no weight is positive, the
\* type has no rules, or a randint range is empty): "except", return rooms
PlaceRaises ==
    /\ gen = "place"
    /\ Len(rooms) < MaxRooms
    /\ attempts < MaxAttempts
    /\ \/ /\ \A u \in DOMAIN room_weights : room_weights[u] <= 0
          /\ Draw(<<"raises">>)
       \/ \E t \in {u \in DOMAIN room_weights : room_weights[u] > 0} :
            \/ /\ t \notin DOMAIN rules.room_types
               /\ Draw(<<"raises", TypeIndex(room_weights, t)>>)
            \/ /\ t \in DOMAIN rules.room_types
               /\ \E w \in rules.room_types[t].min_size[1]..rules.room_types[t].max_size[1],
                     h \in rules.room_types[t].min_size[2]..rules.room_types[t].max_size[2] :
                    /\ \/ PositionRange(w, tilemap.width) = {}
                       \/ PositionRange(h, tilemap.height) = {}
                    /\ Draw(<<"raises", TypeIndex(room_weights, t),
                              w - rules.room_types[t].min_size[1],
                              h - rules.room_types[t].min_size[2]>>)
    /\ gen' = "connect"
    /\ UNCHANGED <<call, current_theme, room_weights, tilemap, rooms, attempts,
                   connected_rooms, scan>>
    /\ UNCHANGED <<cvars, tvars, pvars, rules>>

\* the loop of _generate_rooms ends: return rooms
PlaceDone ==
    /\ gen = "place"
    /\ ~(Len(rooms) < MaxRooms /\ attempts < MaxAttempts)
    /\ gen' = "connect"
    /\ UNCHANGED <<call, current_theme, room_weights, tilemap, rooms, attempts,
                   connected_rooms, scan>>
    /\ UNCHANGED <<cvars, tvars, pvars, rules, replay>>

(***************************************************************************)
(* _connect_rooms.  An edge is a pair of indexes into rooms.               *)
(***************************************************************************)
\* the square of Edge.distance: the order of the squares is that of the distances
Distance2(rs, e) ==
    LET r1 == rs[e[1]]
        r2 == rs[e[2]]
        dx == (r1.x + r1.width \div 2) - (r2.x + r2.width \div 2)
        dy == (r1.y + r1.height \div 2) - (r2.y + r2.height \div 2)
    IN  dx * dx + dy * dy

RECURSIVE AllPairs(_, _, _)
\* "for i, room1 in enumerate(rooms): for room2 in rooms[i + 1:]"
AllPairs(i, j, n) ==
    IF i >= n THEN <<>>
    ELSE IF j > n THEN AllPairs(i + 1, i + 2, n)
    ELSE <<<<i, j>>>> \o AllPairs(i, j + 1, n)

\* e put behind every edge of the sorted list that is not longer than it
InsertEdge(rs, sorted, e) ==
    LET k == Cardinality({i \in 1..Len(sorted) : Distance2(rs, sorted[i]) <= Distance2(rs, e)})
    IN  SubSeq(sorted, 1, k) \o <<e>> \o SubSeq(sorted, k + 1, Len(sorted))

RECURSIVE SortEdges(_, _)
\* edges.sort(), which is stable
SortEdges(rs, es) ==
    IF es = <<>> THEN <<>>
    ELSE InsertEdge(rs, SortEdges(rs, SubSeq(es, 1, Len(es) - 1)), es[Len(es)])

Edges(rs) == SortEdges(rs, AllPairs(1, 2, Len(rs)))

\* "(edge.room1 in connected_rooms) != (edge.room2 in connected_rooms)"
Crossing(rs, conn, e) == (rs[e[1]].id \in conn) # (rs[e[2]].id \in conn)

\* the ids of the local remaining_rooms
RemainingRooms(rs, conn) == RoomIds(rs) \ conn

NoPos == <<>>

\* what _find_valid_door_position may return: one of the positions, or None
DoorChoices(tm, room) ==
    IF DoorPositions(tm, room) = {} THEN {NoPos} ELSE DoorPositions(tm, room)

\* the tilemap after _find_valid_door_position has returned pos
AfterDoor(tm, pos) == IF pos = NoPos THEN tm ELSE PlaceDoorAt(tm, pos)

\* "Place walls around corridor" for the corridor tile p
WallsAround(tm, rs, p) ==
    [tm EXCEPT !.tiles =
        [c \in DOMAIN tm.tiles |->
            IF /\ Abs(c[1] - p[1]) + Abs(c[2] - p[2]) = 1
               /\ ~InsideAnyRoom(c[1], c[2], rs)
               /\ tm.tiles[c] = "EMPTY"
            THEN "WALL"
            ELSE tm.tiles[c]]]

RECURSIVE CarveCorridor(_, _, _, _, _)
\* "Place corridor tiles", from the i-th tile of the path on
CarveCorridor(tm, rs, path, i, walls) ==
    IF i > Len(path) THEN tm
    ELSE IF InsideAnyRoom(path[i][1], path[i][2], rs)
         THEN CarveCorridor(tm, rs, path, i + 1, walls)
         ELSE LET floor == SetTile(tm, path[i][1], path[i][2], "FLOOR")
              IN  CarveCorridor(IF walls THEN WallsAround(floor, rs, path[i]) ELSE floor,
                                rs, path, i + 1, walls)

\* only the first room of the edge is told
AddConnectionOneWay(rs, e) ==
    [i \in 1..Len(rs) |->
        IF i = e[1] THEN [rs[i] EXCEPT !.connections = @ \cup {rs[e[2]].id}]
        ELSE rs[i]]

\* "Update room connections"
AddConnection(rs, e) ==
    [i \in 1..Len(rs) |->
        IF i = e[1] THEN [rs[i] EXCEPT !.connections = @ \cup {rs[e[2]].id}]
        ELSE IF i = e[2] THEN [rs[i] EXCEPT !.connections = @ \cup {rs[e[1]].id}]
        ELSE rs[i]]

\* the index of the first crossing edge from the k-th on, 0 if there is none
NextCrossing(rs, conn, k) ==
    LET es == Edges(rs)
        c == {i \in k..Len(es) : Crossing(rs, conn, es[i])}
    IN  IF c = {} THEN 0 ELSE CHOOSE i \in c : \A j \in c : i <= j

\* _connect_rooms up to the loop
ConnectStart ==
    /\ gen = "connect"
    /\ IF rooms = <<>>
       THEN gen' = "sector" /\ UNCHANGED <<connected_rooms, scan>>
       ELSE /\ gen' = "connecting"
            /\ connected_rooms' = {rooms[1].id}
            /\ scan' = 1
    /\ UNCHANGED <<call, current_theme, room_weights, tilemap, rooms, attempts>>
    /\ UNCHANGED <<cvars, tvars, pvars, rules, replay>>

\* the loop "for edge in edges" reaches its next crossing edge and tries
\* it; when both doors and a path are found the corridor is made and the
\* "while" loop starts over
ConnectTry ==
    /\ gen = "connecting"
    /\ RemainingRooms(rooms, connected_rooms) # {}
    /\ NextCrossing(rooms, connected_rooms, scan) # 0
    /\ LET k == NextCrossing(rooms, connected_rooms, scan)
           e == Edges(rooms)[k]
       IN  \E d1 \in DoorChoices(tilemap, rooms[e[1]]) :
             IF d1 = NoPos
             THEN /\ scan' = k + 1
                  /\ UNCHANGED <<tilemap, rooms, connected_rooms>>
                  /\ Draw(<<"doors", d1, NoPos>>)
             ELSE \E d2 \in DoorChoices(AfterDoor(tilemap, d1), rooms[e[2]]) :
                    LET tm1 == AfterDoor(tilemap, d1)
                        tm2 == AfterDoor(tm1, d2)
                        path == GenFindPath(tm2, rooms, d1, d2)
                    IN  /\ Draw(<<"doors", d1, d2>>)
                        /\ IF d2 = NoPos \/ path = <<>>
                           THEN /\ tilemap' = tm2
                                /\ scan' = k + 1
                                /\ UNCHANGED <<rooms, connected_rooms>>
                           ELSE /\ tilemap' = SetTile(SetTile(CarveCorridor(tm2, rooms, path, 1, TRUE),
                                                              d1[1], d1[2], "DOOR"),
                                                      d2[1], d2[2], "DOOR")
                                /\ rooms' = AddConnection(rooms, e)
                                /\ connected_rooms' =
                                      connected_rooms \cup {rooms[e[1]].id, rooms[e[2]].id}
                                /\ scan' = 1
    /\ UNCHANGED <<gen, call, current_theme, room_weights, attempts>>
    /\ UNCHANGED <<cvars, tvars, pvars, rules>>

RECURSIVE DoorsFor(_, _, _, _)
\* "for room in remaining_rooms": the rooms of ids get the doors chosen by f
DoorsFor(tm, rs, ids, f) ==
    IF ids = {} THEN tm
    ELSE LET id == CHOOSE i \in ids : \A j \in ids : i <= j
         IN  DoorsFor(AfterDoor(tm, f[id]), rs, ids \ {id}, f)

\* no edge could be used: a door is placed in each remaining room, "break"
ConnectFallback ==
    /\ gen = "connecting"
    /\ RemainingRooms(rooms, connected_rooms) # {}
    /\ NextCrossing(rooms, connected_rooms, scan) = 0
    /\ LET ids == RemainingRooms(rooms, connected_rooms)
       IN  \E f \in [ids -> {NoPos} \cup UNION {DoorPositions(tilemap, RoomById(rooms, id)) : id \in ids}] :
             /\ \A id \in ids : f[id] \in DoorChoices(tilemap, RoomById(rooms, id))
             /\ tilemap' = DoorsFor(tilemap, rooms, ids, f)
             /\ Draw(<<"fallback", f>>)
    /\ gen' = "redundant"
    /\ scan' = 1
    /\ UNCHANGED <<call, current_theme, room_weights, rooms, attempts, connected_rooms>>
    /\ UNCHANGED <<cvars, tvars, pvars, rules>>

\* "while remaining_rooms" ends
ConnectDone ==
    /\ gen = "connecting"
    /\ RemainingRooms(rooms, connected_rooms) = {}
    /\ gen' = "redundant"
    /\ scan' = 1
    /\ UNCHANGED <<call, current_theme, room_weights, tilemap, rooms, attempts,
                   connected_rooms>>
    /\ UNCHANGED <<cvars, tvars, pvars, rules, replay>>

\* one pass of "for edge in edges[:len(rooms) // 2]"
Redundant ==
    /\ gen = "redundant"
    /\ scan <= Len(rooms) \div 2
    /\ scan <= Len(Edges(rooms))
    /\ \E coin \in BOOLEAN :
         IF ~coin
         THEN UNCHANGED tilemap /\ Draw(<<"coin", FALSE, NoPos, NoPos>>)
         ELSE LET e == Edges(rooms)[scan]
              IN  \E d1 \in DoorChoices(tilemap, rooms[e[1]]) :
                  \E d2 \in DoorChoices(AfterDoor(tilemap, d1), rooms[e[2]]) :
                     LET tm2 == AfterDoor(AfterDoor(tilemap, d1), d2)
                         path == IF d1 = NoPos \/ d2 = NoPos
                                 THEN <<>>
                                 ELSE GenFindPath(tm2, rooms, d1, d2)
                     IN  /\ Draw(<<"coin", TRUE, d1, d2>>)
                         /\ tilemap' = CarveCorridor(tm2, rooms, path, 1, FALSE)
    /\ scan' = scan + 1
    /\ UNCHANGED <<gen, call, current_theme, room_weights, rooms, attempts,
                   connected_rooms>>
    /\ UNCHANGED <<cvars, tvars, pvars, rules>>

\* the loop of the redundant connections ends: _connect_rooms returns
RedundantDone ==
    /\ gen = "redundant"
    /\ ~(scan <= Len(rooms) \div 2 /\ scan <= Len(Edges(rooms)))
    /\ gen' = "sector"
    /\ UNCHANGED <<call, current_theme, room_weights, tilemap, rooms, attempts,
                   connected_rooms, scan>>
    /\ UNCHANGED <<cvars, tvars, pvars, rules, replay>>

\* "if len(rooms) >= 2: self._add_sector_connections(tilemap, rooms)", and
\* the return of generate_sector
SectorConnections ==
    /\ gen = "sector"
    /\ IF Len(rooms) >= 2
       THEN \E en \in 1..Len(rooms) : \E ex \in (1..Len(rooms)) \ {en} :
            \E d1 \in DoorChoices(tilemap, rooms[en]) :
            \E d2 \in DoorChoices(AfterDoor(tilemap, d1), rooms[ex]) :
               /\ Draw(<<"sector", en, ex, d1, d2>>)
               /\ tilemap' = AfterDoor(AfterDoor(tilemap, d1), d2)
       ELSE UNCHANGED <<tilemap, replay>>
    /\ gen' = "done"
    /\ UNCHANGED <<call, current_theme, room_weights, rooms, attempts,
                   connected_rooms, scan>>
    /\ UNCHANGED <<cvars, tvars, pvars, rules>>

GenNext ==
    \/ \E w \in GenWidths, h \in GenHeights, theme \in GenThemes,
          minr \in MinRoomsArgs, maxr \in MaxRoomsArgs, ratio \in CorridorRatios :
          GenerateSector(w, h, theme, minr, maxr, ratio)
    \/ PlaceRoom
    \/ PlaceRaises
    \/ PlaceDone
    \/ ConnectStart
    \/ ConnectTry
    \/ ConnectFallback
    \/ ConnectDone
    \/ Redundant
    \/ RedundantDone
    \/ SectorConnections

GenInit ==
    /\ rules = Rules
    /\ gen = "idle"
    /\ call = <<>>
    /\ current_theme = "industrial"
    /\ room_weights = <<>>
    /\ tilemap = NewTileMap(0, 0)
    /\ rooms = <<>>
    /\ attempts = 0
    /\ connected_rooms = {}
    /\ scan = 0
    /\ replay = ReplayOff
    /\ cache = <<>>
    /\ max_size = 0
    /\ ttl = 0
    /\ now = 0
    /\ last = [op |-> "init", key |-> NoKey, ret |-> NoGrid, raised |-> FALSE,
               evicted |-> NoKey, had |-> FALSE]
    /\ lastHit = NoKey
    /\ lastPut = [k \in Keys |-> NoGrid]
    /\ th = [t \in Threads |-> Idle]
    /\ raised = FALSE
    /\ ptm = NewTileMap(1, 1)
    /\ chunk_size = MaxChunk
    /\ abstract_cache = NotCached
    /\ q = NoCall

GenSpec == GenInit /\ [][GenNext]_vars

(***************************************************************************)
(* The connection step on its own, from the states _generate_rooms leaves  *)
(* when generate_sector(w, 5, "industrial", 2, 3) has placed its rooms,    *)
(* each in one attempt, and has left its loop on the stop draw: two labs   *)
(* on a map 14 wide, or two labs and a corridor between them on a map 19   *)
(* wide, in any order of placement.                                        *)
(***************************************************************************)
\* the orders in which the draws of a set may have come
Orders(draws) ==
    {o \in [1..Cardinality(draws) -> draws] : \A i, j \in DOMAIN o : i # j => o[i] # o[j]}

\* the width of the map and the rooms as the draws give them: type, x, y,
\* width, height
Placements ==
    {[width |-> 14, o |-> o] :
        o \in Orders({<<"lab", 2, 2, 3, 1>>, <<"lab", 9, 2, 3, 1>>})}
    \cup
    {[width |-> 19, o |-> o] :
        o \in Orders({<<"lab", 2, 2, 3, 1>>, <<"lab", 9, 2, 3, 1>>,
                      <<"corridor", 16, 2, 1, 1>>})}

\* the list "rooms" after the placement in order o
PlacedRooms(o) ==
    [i \in DOMAIN o |-> NewRoom(i - 1, o[i][1], o[i][2], o[i][3], o[i][4], o[i][5])]

RECURSIVE PlacedMap(_, _, _)
\* the tilemap of width w after the first n rooms of order o were placed
PlacedMap(w, o, n) ==
    IF n = 0 THEN NewTileMap(w, 5)
    ELSE StampRoom(PlacedMap(w, o, n - 1), o[n][2], o[n][3], o[n][4], o[n][5])

ConnectNext ==
    \/ ConnectStart
    \/ ConnectTry
    \/ ConnectFallback
    \/ ConnectDone
    \/ Redundant
    \/ RedundantDone
    \/ SectorConnections

ConnectInit ==
    /\ rules = Rules
    /\ gen = "connect"
    /\ current_theme = "industrial"
    /\ room_weights = Rules.themes.industrial.room_weights
    /\ \E pl \in Placements :
         /\ call = [width |-> pl.width, height |-> 5, theme |-> "industrial",
                    min_rooms |-> <<2>>, max_rooms |-> <<3>>, corridor_ratio |-> <<>>]
         /\ tilemap = PlacedMap(pl.width, pl.o, Len(pl.o))
         /\ rooms = PlacedRooms(pl.o)
         /\ attempts = Len(pl.o) - 1
    /\ connected_rooms = {}
    /\ scan = 0
    /\ replay = ReplayOff
    /\ cache = <<>>
    /\ max_size = 0
    /\ ttl = 0
    /\ now = 0
    /\ last = [op |-> "init", key |-> NoKey, ret |-> NoGrid, raised |-> FALSE,
               evicted |-> NoKey, had |-> FALSE]
    /\ lastHit = NoKey
    /\ lastPut = [k \in Keys |-> NoGrid]
    /\ th = [t \in Threads |-> Idle]
    /\ raised = FALSE
    /\ ptm = NewTileMap(1, 1)
    /\ chunk_size = MaxChunk
    /\ abstract_cache = NotCached
    /\ q = NoCall

ConnectSpec == ConnectInit /\ [][ConnectNext]_vars

(***************************************************************************)
(* The returned grid in the hands of its caller: TileMap.connect_rooms on  *)
(* two of its rooms, which may be the same room.                           *)
(***************************************************************************)
\* TileMap.connect_rooms(rs[i], rs[j]): what it returns and the rooms after it
ConnectRoomsOf(rs, i, j) ==
    IF rs[i].id = rs[j].id
    THEN [ret |-> FALSE, rooms |-> rs]
    ELSE [ret |-> TRUE,
          rooms |-> [k \in 1..Len(rs) |->
                        IF k = i THEN [rs[k] EXCEPT !.connections = @ \cup {rs[j].id}]
                        ELSE IF k = j THEN [rs[k] EXCEPT !.connections = @ \cup {rs[i].id}]
                        ELSE rs[k]]]

ConnectRooms ==
    /\ gen = "done"
    /\ \E i, j \in 1..Len(rooms) : rooms' = ConnectRoomsOf(rooms, i, j).rooms
    /\ UNCHANGED <<gen, call, current_theme, room_weights, tilemap, attempts,
                   connected_rooms, scan>>
    /\ UNCHANGED <<cvars, tvars, pvars, rules, replay>>

MapNext ==
    \/ \E w \in GenWidths, h \in GenHeights, theme \in GenThemes,
          minr \in MinRoomsArgs, maxr \in MaxRoomsArgs, ratio \in CorridorRatios :
          GenerateSector(w, h, theme, minr, maxr, ratio)
    \/ PlaceRoom
    \/ PlaceRaises
    \/ PlaceDone
    \/ ConnectStart
    \/ ConnectTry
    \/ ConnectFallback
    \/ ConnectDone
    \/ Redundant
    \/ RedundantDone
    \/ SectorConnections
    \/ ConnectRooms

MapSpec == GenInit /\ [][MapNext]_vars

(***************************************************************************)
(* Calls of generate_sector one after the other on one generator.  The     *)
(* first call's arguments, draws and result are kept; after another call   *)
(* the first call is made again and is given the same draws.               *)
(***************************************************************************)
ReplayCalls ==
    {[width |-> c[1], height |-> 5, theme |-> c[2], min_rooms |-> c[3],
      max_rooms |-> c[4], corridor_ratio |-> <<>>] :
        c \in {<<0, None, <<>>, <<>> >>,
               <<5, "industrial", <<1>>, <<2>> >>,
               <<8, None, <<>>, <<1>> >>,
               <<8, "unknown", <<>>, <<1>> >>,
               <<10, None, <<2>>, <<2>> >>}}

\* the calls made between the two: one that sets current_theme, one that raises
OtherCalls ==
    {[width |-> 9, height |-> 5, theme |-> "residential", min_rooms |-> <<>>,
      max_rooms |-> <<>>, corridor_ratio |-> <<10>>],
     [width |-> 0, height |-> 5, theme |-> "residential", min_rooms |-> <<>>,
      max_rooms |-> <<>>, corridor_ratio |-> <<>>]}

ReplayCall ==
    /\ replay.mode # "off"
    /\ \E c \in ReplayCalls \cup OtherCalls :
         /\ replay.mode = "record" => c \in ReplayCalls
         /\ replay.mode = "other" => c \in OtherCalls
         /\ replay.mode = "replay" => c = replay.prev.call
         /\ GenerateSector(c.width, c.height, c.theme, c.min_rooms, c.max_rooms,
                           c.corridor_ratio)

\* generate_sector returns or raises: its locals are gone, self.current_theme stays
SectorReturn ==
    /\ gen \in {"done", "raised"}
    /\ replay.mode \in {"record", "other"}
    /\ replay' = IF replay.mode = "record"
                 THEN [mode |-> "other", draws |-> <<>>,
                       prev |-> [call |-> call, draws |-> replay.draws, gen |-> gen,
                                 tilemap |-> tilemap, rooms |-> rooms]]
                 ELSE [replay EXCEPT !.mode = "replay", !.draws = <<>>]
    /\ gen' = "idle"
    /\ call' = <<>>
    /\ room_weights' = <<>>
    /\ tilemap' = NewTileMap(0, 0)
    /\ rooms' = <<>>
    /\ attempts' = 0
    /\ connected_rooms' = {}
    /\ scan' = 0
    /\ UNCHANGED current_theme
    /\ UNCHANGED <<cvars, tvars, pvars, rules>>

ReplayNext ==
    \/ ReplayCall
    \/ SectorReturn
    \/ PlaceRoom
    \/ PlaceRaises
    \/ PlaceDone
    \/ ConnectStart
    \/ ConnectTry
    \/ ConnectFallback
    \/ ConnectDone
    \/ Redundant
    \/ RedundantDone
    \/ SectorConnections

ReplayInit ==
    /\ rules = Rules
    /\ gen = "idle"
    /\ call = <<>>
    /\ current_theme = "industrial"
    /\ room_weights = <<>>
    /\ tilemap = NewTileMap(0, 0)
    /\ rooms = <<>>
    /\ attempts = 0
    /\ connected_rooms = {}
    /\ scan = 0
    /\ replay = [mode |-> "record", draws |-> <<>>, prev |-> NoResult]
    /\ cache = <<>>
    /\ max_size = 0
    /\ ttl = 0
    /\ now = 0
    /\ last = [op |-> "init", key |-> NoKey, ret |-> NoGrid, raised |-> FALSE,
               evicted |-> NoKey, had |-> FALSE]
    /\ lastHit = NoKey
    /\ lastPut = [k \in Keys |-> NoGrid]
    /\ th = [t \in Threads |-> Idle]
    /\ raised = FALSE
    /\ ptm = NewTileMap(1, 1)
    /\ chunk_size = MaxChunk
    /\ abstract_cache = NotCached
    /\ q = NoCall

ReplaySpec == ReplayInit /\ [][ReplayNext]_vars

(***************************************************************************)
(* MegastructureGenerator.__init__ and _validate_rules, on rules that may  *)
(* lack sections or fields.  A dictionary is a function of its keys.       *)
(***************************************************************************)
RuleSections == {"room_types", "connection_rules", "themes"}
RuleFields == {"min_size", "max_size", "min_door_width"}
RuleSizes == {<<1, 1>>, <<2, 1>>, <<1, 2>>, <<1>>, <<1, 1, 1>>}

\* the descriptions a room type may be given
RoomTypeCandidates ==
    {[f \in F |-> IF f = "min_size" THEN mn ELSE IF f = "max_size" THEN mx ELSE 1] :
        F \in SUBSET RuleFields, mn \in RuleSizes, mx \in RuleSizes}

\* the rules a generator may be built with
RulesCandidates ==
    {[sec \in S |-> IF sec = "room_types" THEN rts
                    ELSE IF sec = "themes" THEN Rules.themes
                    ELSE <<>>] :
        S \in SUBSET RuleSections,
        rts \in {<<>>} \cup {[corridor |-> rt] : rt \in RoomTypeCandidates}}

\* required_sections of _validate_rules
RequiredSections == {"room_types", "connection_rules"}

\* the checks _validate_rules makes on one room type
ValidRoomType(rt) ==
    /\ RuleFields \subseteq DOMAIN rt
    /\ Len(rt.min_size) = 2 /\ Len(rt.max_size) = 2
    /\ rt.min_size[1] <= rt.max_size[1]
    /\ rt.min_size[2] <= rt.max_size[2]

\* _validate_rules returns without raising
ValidateRules(r) ==
    /\ RequiredSections \subseteq DOMAIN r
    /\ \A t \in DOMAIN r.room_types : ValidRoomType(r.room_types[t])

\* MegastructureGenerator.__init__
Construct ==
    /\ gen = "new"
    /\ current_theme' = "industrial"
    /\ gen' = IF ValidateRules(rules) THEN "idle" ELSE "invalid"
    /\ UNCHANGED <<rules, call, room_weights, tilemap, rooms, attempts,
                   connected_rooms, scan, replay>>
    /\ UNCHANGED <<cvars, tvars, pvars>>

RulesNext == Construct

RulesInit ==
    /\ rules \in RulesCandidates
    /\ gen = "new"
    /\ call = <<>>
    /\ current_theme = None
    /\ room_weights = <<>>
    /\ tilemap = NewTileMap(0, 0)
    /\ rooms = <<>>
    /\ attempts = 0
    /\ connected_rooms = {}
    /\ scan = 0
    /\ replay = ReplayOff
    /\ cache = <<>>
    /\ max_size = 0
    /\ ttl = 0
    /\ now = 0
    /\ last = [op |-> "init", key |-> NoKey, ret |-> NoGrid, raised |-> FALSE,
               evicted |-> NoKey, had |-> FALSE]
    /\ lastHit = NoKey
    /\ lastPut = [k \in Keys |-> NoGrid]
    /\ th = [t \in Threads |-> Idle]
    /\ raised = FALSE
    /\ ptm = NewTileMap(1, 1)
    /\ chunk_size = MaxChunk
    /\ abstract_cache = NotCached
    /\ q = NoCall

RulesSpec == RulesInit /\ [][RulesNext]_vars

(***************************************************************************)
(* PathFinder (engine/ai/pathfinding.py): A* over the four neighbours.     *)
(* The frontier holds (priority, position) tuples, which Python orders     *)
(* entry by entry; the tuples of a search are distinct, so heappop gives   *)
(* the one least tuple whatever the shape of the heap, and the frontier    *)
(* is kept as a set.  None is the empty sequence.                          *)
(***************************************************************************)
\* PathFinder._is_valid_position
PfValidPosition(tm, p) ==
    /\ IsValidPosition(tm, p[1], p[2])
    /\ GetTile(tm, p[1], p[2]) \in {"FLOOR", "DOOR"}

\* (priority, position) tuples compared as Python compares tuples
PfTupleLT(a, b) ==
    \/ a[1] < b[1]
    \/ a[1] = b[1] /\ a[2][1] < b[2][1]
    \/ a[1] = b[1] /\ a[2][1] = b[2][1] /\ a[2][2] < b[2][2]

\* heapq.heappop(frontier)
PfPop(frontier) == CHOOSE e \in frontier : \A o \in frontier \ {e} : PfTupleLT(e, o)

RECURSIVE PfExpand(_, _, _, _, _)
\* the loop "for next_pos in self._get_neighbors(current)", from direction i on
PfExpand(tm, goal, cur, st, i) ==
    IF i > Len(Dirs4)
    THEN st
    ELSE LET next_pos == <<cur[1] + Dirs4[i][1], cur[2] + Dirs4[i][2]>>
             new_cost == st.cost_so_far[cur] + 1
         IN  IF /\ PfValidPosition(tm, next_pos)
                /\ \/ next_pos \notin DOMAIN st.cost_so_far
                   \/ new_cost < st.cost_so_far[next_pos]
             THEN PfExpand(tm, goal, cur,
                           [frontier |-> st.frontier \cup
                                {<<new_cost + Heuristic(next_pos, goal), next_pos>>},
                            cost_so_far |-> (next_pos :> new_cost) @@ st.cost_so_far,
                            came_from |-> (next_pos :> cur) @@ st.came_from],
                           i + 1)
             ELSE PfExpand(tm, goal, cur, st, i + 1)

RECURSIVE PfLoop(_, _, _)
\* "while frontier": the dictionaries when the loop ends
PfLoop(tm, goal, st) ==
    IF st.frontier = {}
    THEN st
    ELSE LET e == PfPop(st.frontier)
             rest == [st EXCEPT !.frontier = @ \ {e}]
         IN  IF e[2] = goal
             THEN rest
             ELSE PfLoop(tm, goal, PfExpand(tm, goal, e[2], rest, 1))

RECURSIVE PfReconstruct(_, _)
\* the walk back along came_from, reversed
PfReconstruct(came_from, current) ==
    IF current = NoPos
    THEN <<>>
    ELSE Append(PfReconstruct(came_from, came_from[current]), current)

\* PathFinder.find_path
PfFindPath(tm, start, goal) ==
    IF ~PfValidPosition(tm, start) \/ ~PfValidPosition(tm, goal)
    THEN <<>>
    ELSE LET st == PfLoop(tm, goal, [frontier |-> {<<0, start>>},
                                    cost_so_far |-> (start :> 0),
                                    came_from |-> (start :> NoPos)])
         IN  IF goal \notin DOMAIN st.came_from
             THEN <<>>
             ELSE PfReconstruct(st.came_from, goal)

(***************************************************************************)
(* Properties of the generator.  The grid generate_sector returns is       *)
(* tilemap, with its rooms, once gen = "done".                             *)
(***************************************************************************)
\* the two rectangles, each grown by one tile on every side, share a cell
Expanded1Intersect(r1, r2) ==
    /\ r1.x - 1 < r2.x + r2.width + 1
    /\ r2.x - 1 < r1.x + r1.width + 1
    /\ r1.y - 1 < r2.y + r2.height + 1
    /\ r2.y - 1 < r1.y + r1.height + 1

\* C1: in the returned grid no two distinct rooms, each expanded by one
\* tile on every side, intersect (every candidate is tested against every
\* room accepted before it)
C1_RoomsApart ==
    gen = "done" =>
        \A i, j \in 1..Len(rooms) :
            i # j => ~Expanded1Intersect(rooms[i], rooms[j])

\* a grid is returned whose third room was tested against two others
C1_Witness == gen = "done" /\ Len(rooms) >= 3

RECURSIVE ReachFrom(_, _)
\* the ids reached from the ids of S by following connections
ReachFrom(rs, S) ==
    LET n == S \cup UNION {RoomById(rs, id).connections : id \in S}
    IN  IF n = S THEN S ELSE ReachFrom(rs, n)

\* C2: in the returned grid every room reaches every other room by
\* following the connections relation transitively
C2_ConnectionsConnected ==
    gen = "done" =>
        \A i \in 1..Len(rooms) : ReachFrom(rooms, {rooms[i].id}) = RoomIds(rooms)

\* the ring of cells just outside a room's rectangle
Perimeter(room) ==
    {p \in ((room.x - 1)..(room.x + room.width)) \X ((room.y - 1)..(room.y + room.height)) :
        ~IsInsideRoom(p[1], p[2], room)}

\* C3: in the returned grid every room, the only room of a one-room sector
\* included, has a DOOR tile among the cells of its immediate perimeter
C3_EveryRoomHasDoor ==
    gen = "done" =>
        \A i \in 1..Len(rooms) :
            \E p \in Perimeter(rooms[i]) : GetTile(tilemap, p[1], p[2]) = "DOOR"

\* C4: in the returned grid every room lies within the requested width
\* and height
C4_RoomsInBounds ==
    gen = "done" =>
        \A i \in 1..Len(rooms) :
            /\ rooms[i].x >= 0
            /\ rooms[i].y >= 0
            /\ rooms[i].x + rooms[i].width <= call.width
            /\ rooms[i].y + rooms[i].height <= call.height

\* a grid is returned with a room at the largest x the draw can give
C4_Witness ==
    /\ gen = "done"
    /\ \E i \in 1..Len(rooms) : rooms[i].x + rooms[i].width + Padding = call.width

\* the FLOOR tiles inside a room
FloorTiles(tm, room) ==
    {p \in (room.x..(room.x + room.width - 1)) \X (room.y..(room.y + room.height - 1)) :
        GetTile(tm, p[1], p[2]) = "FLOOR"}

\* C14: in the returned grid, from every floor tile inside a room to every
\* floor tile inside another room PathFinder.find_path returns a route that
\* ends at the target and whose tiles are all FLOOR or DOOR
C14_RoomsJoinedByWalkableRoute ==
    (gen = "done" /\ Len(rooms) >= 2) =>
        \A i, j \in 1..Len(rooms) :
            i # j =>
                \A a \in FloorTiles(tilemap, rooms[i]), b \in FloorTiles(tilemap, rooms[j]) :
                    LET path == PfFindPath(tilemap, a, b)
                    IN  /\ path # <<>>
                        /\ path[Len(path)] = b
                        /\ \A k \in 1..Len(path) :
                              GetTile(tilemap, path[k][1], path[k][2]) \in {"FLOOR", "DOOR"}

\* C15: the connections of the rooms are symmetric and no room is connected
\* to itself, during generation and after any connect_rooms calls on the
\* returned grid; connect_rooms of a room with itself returns false and
\* leaves the rooms as they are
C15_ConnectionsSymmetric ==
    /\ \A i, j \in 1..Len(rooms) :
          rooms[j].id \in rooms[i].connections <=> rooms[i].id \in rooms[j].connections
    /\ \A i \in 1..Len(rooms) : rooms[i].id \notin rooms[i].connections
    /\ gen = "done" =>
          \A i \in 1..Len(rooms) :
              ConnectRoomsOf(rooms, i, i) = [ret |-> FALSE, rooms |-> rooms]

\* three rooms of a returned grid, each connected to both others, which only
\* connect_rooms calls bring about
C15_Witness ==
    /\ gen = "done"
    /\ Len(rooms) = 3
    /\ \A i, j \in 1..3 : i # j => rooms[j].id \in rooms[i].connections

\* how far a call is from its return: the loops still to run come first,
\* then the rooms still to connect, then the attempts or edges still to try
Measure(g, rs, conn, at, sc) ==
    LET E == Len(Edges(rs))
    IN  CASE g = "place" -> 5000 + (MaxAttempts - at)
          [] g = "connect" -> 4000
          [] g = "connecting" ->
                3000 + Cardinality(RemainingRooms(rs, conn)) * (E + 2) + (E + 1 - sc)
          [] g = "redundant" -> 2000 + (E + 1 - sc)
          [] g = "sector" -> 1000
          [] OTHER -> 0

CrossingEdges(rs, conn) ==
    {Edges(rs)[i] : i \in {k \in 1..Len(Edges(rs)) : Crossing(rs, conn, Edges(rs)[k])}}

\* the number of undirected connections recorded in the rooms
ConnectionCount(rs) ==
    Cardinality({p \in (1..Len(rs)) \X (1..Len(rs)) :
                    p[1] < p[2] /\ rs[p[2]].id \in rs[p[1]].connections})

\* C20: in the connection loop every connection is added for a cheapest edge
\* among those that join the connected set to a room not yet connected;
\* when the loop has connected every room the connections are n-1; and the
\* redundant-corridor step adds no connection
C20_CheapestCrossingEdge ==
    [][ /\ (gen = "connecting" /\ rooms' # rooms) =>
              \E e \in CrossingEdges(rooms, connected_rooms) :
                  /\ rooms' = AddConnection(rooms, e)
                  /\ \A f \in CrossingEdges(rooms, connected_rooms) :
                        Distance2(rooms, e) <= Distance2(rooms, f)
        /\ (gen = "connecting" /\ gen' = "redundant"
              /\ RemainingRooms(rooms, connected_rooms) = {}) =>
              ConnectionCount(rooms) = Len(rooms) - 1
        /\ (gen = "redundant") => rooms' = rooms
      ]_vars

\* C11: generate_sector raises exactly when width <= 0 or height <= 0;
\* otherwise, whatever the theme, min_rooms, max_rooms and corridor_ratio
\* and also when no room fits, the grid it returns has the requested width
\* and height
C11_RaisesOnlyOnBadDimensions ==
    /\ gen = "raised" => (call.width <= 0 \/ call.height <= 0)
    /\ gen \notin {"idle", "raised"} => (call.width > 0 /\ call.height > 0)
    /\ gen = "done" => (tilemap.width = call.width /\ tilemap.height = call.height)

\* a grid without rooms is returned for an unknown theme with a corridor
\* ratio, the call whose weights cannot be computed
C11_Witness ==
    /\ gen = "done"
    /\ rooms = <<>>
    /\ call.theme = "unknown"
    /\ call.corridor_ratio # <<>>
    /\ tilemap.width = MapW

\* what the claim calls malformed rules: a section of the two is missing,
\* or a room type lacks a field, has a size that is not a pair, or has a
\* min_size above its max_size in some component
MalformedRules(r) ==
    \/ ~({"room_types", "themes"} \subseteq DOMAIN r)
    \/ \E t \in DOMAIN r.room_types :
         LET rt == r.room_types[t]
         IN  \/ ~(RuleFields \subseteq DOMAIN rt)
             \/ Len(rt.min_size) # 2 \/ Len(rt.max_size) # 2
             \/ rt.min_size[1] > rt.max_size[1]
             \/ rt.min_size[2] > rt.max_size[2]

\* C12: construction fails exactly for malformed rules: rules without the
\* room_types or the themes section or with an ill-formed room type fail,
\* rules with both sections and well-formed room types succeed
C12_ConstructionFailsIffMalformed ==
    gen \in {"idle", "invalid"} => (gen = "invalid" <=> MalformedRules(rules))

C21_AtMostMaxRooms ==
    /\ (gen = "done" /\ call.max_rooms # <<>>) => Len(rooms) <= call.max_rooms[1]
    /\ attempts <= MaxAttempts

\* the call of generate_sector ended in its handler before placement began
\* (the division by len(room_weights) - 1 = 0)
FallbackReturned ==
    /\ call.corridor_ratio # <<>>
    /\ Cardinality(DOMAIN ThemeWeights(call.theme)) = 1

\* C22: when placement was run with min_rooms <= max_rooms and the returned
\* grid has fewer than min_rooms rooms, the whole budget of attempts was used
C22_FewRoomsOnlyAfterBudget ==
    (gen = "done" /\ ~FallbackReturned /\ MinRooms <= MaxRooms /\ Len(rooms) < MinRooms)
        => attempts = MaxAttempts

\* C23: in the returned grid every cell of the immediate perimeter of every
\* room is WALL or DOOR
C23_PerimeterWallOrDoor ==
    gen = "done" =>
        \A i \in 1..Len(rooms) :
            \A p \in Perimeter(rooms[i]) :
                GetTile(tilemap, p[1], p[2]) \in {"WALL", "DOOR"}



\* C24: in the returned grid every tile inside the rectangle of every room
\* is FLOOR
C24_RoomInteriorsFloor ==
    gen = "done" =>
        \A i \in 1..Len(rooms) :
            \A p \in (rooms[i].x..(rooms[i].x + rooms[i].width - 1))
                     \X (rooms[i].y..(rooms[i].y + rooms[i].height - 1)) :
                GetTile(tilemap, p[1], p[2]) = "FLOOR"

\* a grid is returned with two rooms joined by a carved corridor, each with
\* a door on its perimeter
C24_Witness ==
    /\ gen = "done"
    /\ \E i, j \in 1..Len(rooms) :
         /\ i # j
         /\ rooms[j].id \in rooms[i].connections
         /\ \E p \in Perimeter(rooms[i]) : GetTile(tilemap, p[1], p[2]) = "DOOR"
         /\ \E p \in Perimeter(rooms[j]) : GetTile(tilemap, p[1], p[2]) = "DOOR"

\* the pass of the redundant-connection loop for the edge e carves a corridor
\* from tm and leaves tm2
CarvesExtraCorridor(tm, rs, e, tm2) ==
    \E d1 \in DoorPositions(tm, rs[e[1]]) :
    \E d2 \in DoorPositions(AfterDoor(tm, d1), rs[e[2]]) :
        LET doors == AfterDoor(AfterDoor(tm, d1), d2)
            path == GenFindPath(doors, rs, d1, d2)
        IN  path # <<>> /\ tm2 = CarveCorridor(doors, rs, path, 1, FALSE)

\* C28: a corridor carved by the redundant-connection loop joins two rooms
\* that are not directly connected to each other
C28_ExtraCorridorOffTree ==
    [][(/\ gen = "redundant"
        /\ scan' = scan + 1
        /\ tilemap' # tilemap
        /\ CarvesExtraCorridor(tilemap, rooms, Edges(rooms)[scan], tilemap'))
          => rooms[Edges(rooms)[scan][2]].id \notin rooms[Edges(rooms)[scan][1]].connections]_vars

(***************************************************************************)
(* Properties of the pathfinder.                                           *)
(***************************************************************************)
\* no two consecutive points more than one tile apart
StepsAdjacent(path) ==
    \A i \in 1..(Len(path) - 1) :
        /\ Abs(path[i + 1][1] - path[i][1]) <= 1
        /\ Abs(path[i + 1][2] - path[i][2]) <= 1

\* C5: the result of find_path is empty or runs from start to goal, and it
\* is empty whenever start or goal is out of bounds.
C5_EmptyOrStartToGoal ==
    (q.op = "find_path") =>
        /\ \/ q.path = <<>>
           \/ (q.path[1] = q.start /\ q.path[Len(q.path)] = q.goal)
        /\ (~IsValidPosition(ptm, q.start[1], q.start[2])
              \/ ~IsValidPosition(ptm, q.goal[1], q.goal[2])) => q.path = <<>>

\* the call C6 is about: from (0, 0) to (N - 1, 0) on a wall-free N x 1 grid
OpenCorridorQuery ==
    /\ q.op = "find_path"
    /\ ptm.height = 1
    /\ WallCount(ptm) = 0
    /\ q.start = <<0, 0>>
    /\ q.goal = <<ptm.width - 1, 0>>

\* C6: on a wall-free N x 1 grid find_path from (0, 0) to (N - 1, 0) returns
\* exactly N points, from (0, 0) to (N - 1, 0), consecutive points at most
\* one tile apart.
C6_OpenCorridor ==
    OpenCorridorQuery =>
        /\ Len(q.path) = ptm.width
        /\ q.path[1] = <<0, 0>>
        /\ q.path[Len(q.path)] = <<ptm.width - 1, 0>>
        /\ StepsAdjacent(q.path)

\* what holds of C6: the same, for a call that did not use an abstract grid
\* cached before a set_tile
C6_OpenCorridorFreshGrid ==
    (OpenCorridorQuery /\ ~q.stale) =>
        /\ Len(q.path) = ptm.width
        /\ q.path[1] = <<0, 0>>
        /\ q.path[Len(q.path)] = <<ptm.width - 1, 0>>
        /\ StepsAdjacent(q.path)

\* C19: on the pathfinder's map, set_tile at a position out of bounds, a
\* negative coordinate included, returns false and leaves the map as it is;
\* at a position in bounds it returns true and changes the tile there and no
\* other; get_tile returns none exactly for the positions out of bounds
C19_SetTileFrame ==
    \A c \in Coords(ptm.width, ptm.height), t \in {"EMPTY", "WALL", "FLOOR", "DOOR"} :
        LET inside == /\ 0 <= c[1] /\ c[1] <= ptm.width - 1
                      /\ 0 <= c[2] /\ c[2] <= ptm.height - 1
            after == SetTile(ptm, c[1], c[2], t)
        IN  /\ SetTileReturns(ptm, c[1], c[2]) = inside
            /\ ~inside => after = ptm
            /\ inside =>
                  /\ after.width = ptm.width /\ after.height = ptm.height
                  /\ DOMAIN after.tiles = DOMAIN ptm.tiles
                  /\ after.tiles[c] = t
                  /\ \A p \in DOMAIN ptm.tiles \ {c} : after.tiles[p] = ptm.tiles[p]
            /\ (GetTile(ptm, c[1], c[2]) = None) = ~inside

\* set_tile was called with a negative coordinate on a map that an earlier
\* call had written a wall to
C19_Witness ==
    /\ q.op = "set_tile"
    /\ q.start[1] < 0
    /\ WallCount(ptm) >= 1

\* the abstract path of the call of find_path that q records
LastAbstractPath ==
    AbstractPath(<<q.start[1] \div chunk_size, q.start[2] \div chunk_size>>,
                 <<q.goal[1] \div chunk_size, q.goal[2] \div chunk_size>>,
                 abstract_cache.grid,
                 ChunkCount(ptm.width, chunk_size), ChunkCount(ptm.height, chunk_size))

\* the tile p lies in the chunk c
InChunk(p, c) == p[1] \div chunk_size = c[1] /\ p[2] \div chunk_size = c[2]

\* C25: for every two consecutive chunks c1, c2 of the abstract path of a
\* call, every crossing point computed for them is in bounds, lies in c2,
\* has its neighbour across the shared boundary in c1, and neither of the
\* two tiles is a wall
C25_CrossingPointsStraddle ==
    q.op = "find_path" =>
        \A i \in 1..(Len(LastAbstractPath) - 1) :
            LET c1 == LastAbstractPath[i]
                c2 == LastAbstractPath[i + 1]
                points == FindCrossingPoints(ptm, chunk_size, c1, c2)
            IN  \A k \in 1..Len(points) :
                    LET p == points[k]
                        o == <<p[1] - (c2[1] - c1[1]), p[2] - (c2[2] - c1[2])>>
                    IN  /\ IsValidPosition(ptm, p[1], p[2])
                        /\ InChunk(p, c2)
                        /\ InChunk(o, c1)
                        /\ GetTile(ptm, p[1], p[2]) # "WALL"
                        /\ GetTile(ptm, o[1], o[2]) # "WALL"

\* C26: in a non-empty result of find_path two consecutive points are
\* different tiles at most one apart in each coordinate, and every point
\* after the first is in bounds and not a WALL
C26_PathStepsValid ==
    (q.op = "find_path" /\ q.path # <<>>) =>
        /\ StepsAdjacent(q.path)
        /\ \A i \in 1..(Len(q.path) - 1) : q.path[i + 1] # q.path[i]
        /\ \A i \in 2..Len(q.path) : Walkable(ptm, q.path[i][1], q.path[i][2])

\* the crossing point find_path chose for the first two chunks of its
\* abstract path, or <<>> when there is none
FirstCrossing ==
    IF Len(LastAbstractPath) < 2
    THEN <<>>
    ELSE LET points == FindCrossingPoints(ptm, chunk_size, LastAbstractPath[1],
                                          LastAbstractPath[2])
         IN  IF points = <<>> THEN <<>> ELSE BestPoint(points, q.goal)

\* find_path returned a path of two segments joined at a crossing point
\* strictly inside it, on a map with a wall
C26_Witness ==
    /\ q.op = "find_path"
    /\ WallCount(ptm) >= 1
    /\ FirstCrossing # <<>>
    /\ \E i \in 2..(Len(q.path) - 1) : q.path[i] = FirstCrossing
    /\ q.path[Len(q.path)] = q.goal

\* the in-bounds tiles of the chunk c of the map
ChunkTiles(c) == {p \in DOMAIN ptm.tiles : InChunk(p, c)}

\* the WALL tiles of the chunk c of the map
ChunkWalls(c) == {p \in ChunkTiles(c) : ptm.tiles[p] = "WALL"}

\* C27: the abstract grid built for the map has one entry for every chunk
\* that holds a tile of the map, and a chunk is unwalkable exactly when four
\* times its WALL tiles are more than its in-bounds tiles; so a chunk with
\* exactly a quarter of walls is walkable
C27_UnwalkableOverQuarter ==
    LET grid == CreateAbstractGrid(ptm, chunk_size)
    IN  /\ DOMAIN grid = {<<p[1] \div chunk_size, p[2] \div chunk_size>> : p \in DOMAIN ptm.tiles}
        /\ \A c \in DOMAIN grid :
              (~grid[c]) <=> (4 * Cardinality(ChunkWalls(c)) > Cardinality(ChunkTiles(c)))
        /\ \A c \in DOMAIN grid :
              4 * Cardinality(ChunkWalls(c)) = Cardinality(ChunkTiles(c)) => grid[c]

\* find_path has built the grid for a map with a full chunk holding exactly
\* a quarter of walls and a partial chunk at the edge holding a wall
C27_Witness ==
    /\ q.op = "find_path"
    /\ abstract_cache = [has |-> TRUE, grid |-> CreateAbstractGrid(ptm, chunk_size)]
    /\ \E c \in DOMAIN abstract_cache.grid :
          /\ Cardinality(ChunkTiles(c)) = chunk_size * chunk_size
          /\ 4 * Cardinality(ChunkWalls(c)) = Cardinality(ChunkTiles(c))
    /\ \E c \in DOMAIN abstract_cache.grid :
          /\ Cardinality(ChunkTiles(c)) < chunk_size * chunk_size
          /\ ChunkWalls(c) # {}
          /\ ~abstract_cache.grid[c]

\* C30: whatever set_tile calls came before it, a call of find_path returns
\* what a pathfinder constructed for the call, which builds the abstract
\* grid from the tiles as they are, returns
C30_SameAsFreshPathfinder ==
    q.op = "find_path" =>
        q.path = FindPathWith(ptm, chunk_size, CreateAbstractGrid(ptm, chunk_size),
                              q.start, q.goal)

(***************************************************************************)
(* Properties of the cache.                                                *)
(***************************************************************************)
RemoveAt(c, i) == SubSeq(c, 1, i - 1) \o SubSeq(c, i + 1, Len(c))

C8_GetFreshOrExpire ==
    [][ (last'.op = "get") =>
          LET k == last'.key
              present == InCache(cache, k)
              fresh == present /\ now - Lookup(cache, k).ts <= ttl
          IN  /\ (last'.ret # NoGrid) <=> fresh
              /\ fresh => (last'.ret = lastPut[k] /\ cache' = cache)
              /\ ~present => cache' = cache
              /\ (present /\ ~fresh) =>
                    /\ Len(cache') = Len(cache) - 1
                    /\ ~InCache(cache', k)
                    /\ \A i \in 1..Len(cache) :
                          cache[i].key # k => \E j \in 1..Len(cache') : cache'[j] = cache[i]
      ]_vars

\* C8 witness: a get has found its entry expired and removed it while
\* another entry stayed.
C8_Witness ==
    /\ last.op = "get" /\ last.had /\ last.ret = NoGrid
    /\ last.evicted = last.key /\ Len(cache) >= 1

\* C9: with a capacity of at least 1 the cache never holds more than
\* max_size entries.
C9_SizeBounded == (max_size >= 1) => (Len(cache) <= max_size)

\* C9 witness: a put into a full cache has left it full.
C9_Witness ==
    /\ last.op = "put" /\ last.evicted # NoKey
    /\ max_size >= 1 /\ Len(cache) = max_size

\* C10: with two concurrent callers (capacity at least 1) no call raises
\* and the cache never holds more than max_size entries.
C10_ConcurrentSafe == (max_size >= 1) => (~raised /\ Len(cache) <= max_size)

\* C16: with one caller, whatever the capacity (0 included) and the TTL, no
\* get, put, remove or clear raises; a get of an absent key returns none, a
\* remove of an absent key leaves the cache as it was, and clear leaves it
\* empty.
C16_NoCallRaises ==
    [][ /\ ~last'.raised
        /\ (last'.op = "get" /\ ~InCache(cache, last'.key)) =>
              (last'.ret = NoGrid /\ cache' = cache)
        /\ (last'.op = "remove" /\ ~InCache(cache, last'.key)) => cache' = cache
        /\ (last'.op = "clear") => Len(cache') = 0
      ]_vars

\* C29: a put for a key that is already in the cache leaves every other
\* entry as it was and the number of entries unchanged, and stores the grid
\* under the key
C29_PutExistingKeyFrame ==
    [][(last'.op = "put" /\ last'.had /\ ~last'.raised) =>
          /\ Len(cache') = Len(cache)
          /\ \A i \in 1..Len(cache) :
                cache[i].key # last'.key => \E j \in 1..Len(cache') : cache'[j] = cache[i]
          /\ InCache(cache', last'.key)]_vars

====
